---- MODULE Spec2Model ----
(***************************************************************************)
(* Model of the serial command/response core of LTPowerAnalyzerPython:     *)
(*   Drivers/SerialDeviceDriver.py  (SerialDevice: transport, discovery)   *)
(*   Drivers/RL2000Driver.py        (RL2000: fan-out reads and sets)       *)
(*   Drivers/LNAmplifierDriver.py   (LNAmplifier: paged EEPROM datasets)   *)
(*                                                                         *)
(* Text is modelled as a sequence of one-character strings, so that        *)
(* strip(), int(), float(), split(',') and str(float) are computed and not *)
(* assumed.  A Python value that may be None is modelled as a sequence of  *)
(* length 0 (None) or 1 (the value).  Indices are Python's, 0-based.       *)
(***************************************************************************)
EXTENDS Integers, Sequences, FiniteSets, TLC

VARIABLES
    \* ---- SerialDevice object state (SerialDeviceDriver.py:107-120)
    serial_ports,         \* registry: sequence of [portstr, is_open]
    checked_ports,        \* set of endpoints already probed
    error,                \* _error: None or an integer
    error_device_index,   \* _error_device_index
    _port_index,           \* _port_index, the active handle
    connected,            \* _connected
    debug,                \* _debug
    \* ---- what the last check_connections pass did (observation of its calls)
    cc_enum,              \* the OS enumeration the pass saw
    cc_checked0,          \* _checked_ports when the pass was entered
    cc_opened,            \* endpoints passed to serial.Serial(), in order
    cc_written,           \* endpoints the identification command was written to
    cc_result,            \* "True", "False" or "raise" when the last call was a pass, else "none"
    temp_open,            \* endpoints whose channel the pass left open outside the registry
    cc_probes,            \* the probes of the pass, in order: [port, opened, resp, registered]
    cc_dropped,           \* endpoints that some pass removed from the checked set
    \* ---- the channels and the devices behind them, one per registry index
    chan,                 \* chan[i] = [tx, rx, log, mode]
    dev,                  \* dev[i]  = attached device state
    \* ---- the last catalog operation (observation of its calls and result)
    op,                   \* [name, port, arg, ret, pre, ...] or Idle
    \* ---- fan-out batch (asyncio.gather over asyncio.to_thread)
    th,                   \* th[i] = per-handle thread: [pc, ret, v1]
    batch,                \* [state, op, result, order]
    \* ---- whole-dataset helper in progress / finished
    ds,                   \* [phase, values, out, ret, cmds]
    \* ---- the error register object (SerialDeviceDriver.py:28-86)
    device_errors         \* [error_flags, error_descriptions]

vars == <<serial_ports, checked_ports, error, error_device_index, _port_index,
          connected, debug, cc_enum, cc_checked0, cc_opened, cc_written,
          cc_result, temp_open, cc_probes, cc_dropped, chan, dev, op, th, batch, ds,
          device_errors>>

drvVars  == <<serial_ports, checked_ports, error, error_device_index,
              _port_index, connected, debug>>
passVars == <<cc_enum, cc_checked0, cc_opened, cc_written, temp_open, cc_probes,
              cc_dropped>>
discVars == <<passVars, cc_result>>
wireVars == <<chan, dev>>

-----------------------------------------------------------------------------
(* Bounds of the model *)

NumEndpoints == 2        \* endpoints the OS may enumerate
CatHandles   == 2        \* registered handles while catalog operations run
FanHandles   == 3        \* registered handles in a fan-out read
MaxPages     == 3        \* EEPROM pages a dataset may span
DataHandles  == 1        \* registered LNAmplifier handles holding datasets

-----------------------------------------------------------------------------
(* Python values *)

None     == <<>>
Some(x)  == <<x>>
IsNone(o) == o = <<>>
Val(o)   == o[1]

Range(s) == {s[i] : i \in 1..Len(s)}

(* a statement followed by the rest of the body: value is computed once,   *)
(* and Rest is the code after it, which names the result                   *)
Bind(value, Rest(_)) == CHOOSE result \in {Rest(x) : x \in {value}} : TRUE

(* list indexing with Python's rules: 0-based, negative counts from the end *)
PyIndexOK(lst, i) == -Len(lst) <= i /\ i < Len(lst)
PyGet(lst, i)     == IF i >= 0 THEN lst[i + 1] ELSE lst[Len(lst) + i + 1]

-----------------------------------------------------------------------------
(* Text: sequences of characters *)

Digits == <<"0", "1", "2", "3", "4", "5", "6", "7", "8", "9">>
IsDigit(c) == c \in Range(Digits)
DigitVal(c) == (CHOOSE i \in 1..10 : Digits[i] = c) - 1
BadByte == "\\xff"       \* a byte that is not valid UTF-8

IsSpace(c) == c \in {" ", "\r", "\n", "\t"}

RECURSIVE LStrip(_)
LStrip(s) == IF s # <<>> /\ IsSpace(Head(s)) THEN LStrip(Tail(s)) ELSE s
RECURSIVE RStrip(_)
RStrip(s) == IF s # <<>> /\ IsSpace(s[Len(s)])
             THEN RStrip(SubSeq(s, 1, Len(s) - 1)) ELSE s
(* str.strip() *)
Strip(s) == RStrip(LStrip(s))

(* bytes.decode('utf-8') raises UnicodeDecodeError on an invalid byte *)
Decodable(s) == BadByte \notin Range(s)

RECURSIVE DigitsVal(_)
DigitsVal(s) == IF s = <<>> THEN 0
                ELSE 10 * DigitsVal(SubSeq(s, 1, Len(s) - 1)) + DigitVal(s[Len(s)])
AllDigits(s) == s # <<>> /\ \A i \in 1..Len(s) : IsDigit(s[i])

(* int(text): optional sign, then one or more digits; anything else is a  *)
(* ValueError                                                              *)
IsIntText(s) ==
    Bind(Strip(s), LAMBDA t :
        /\ t # <<>>
        /\ IF t[1] \in {"+", "-"} THEN AllDigits(Tail(t)) ELSE AllDigits(t))
ParseInt(s) ==
    Bind(Strip(s), LAMBDA t :
        IF t[1] = "-" THEN 0 - DigitsVal(Tail(t))
        ELSE IF t[1] = "+" THEN DigitsVal(Tail(t))
        ELSE DigitsVal(t))

(* str(int) *)
RECURSIVE NatText(_)
NatText(n) == IF n < 10 THEN <<Digits[n + 1]>>
              ELSE NatText(n \div 10) \o <<Digits[(n % 10) + 1]>>
IntText(n) == IF n < 0 THEN <<"-">> \o NatText(0 - n) ELSE NatText(n)

(* Floating-point values are modelled as fixed-point numbers: the integer h *)
(* stands for h / FracUnit.  str(float) prints the shortest decimal that    *)
(* reads back as the same value, and always at least one fractional digit.  *)
FracUnit == 10 * 10
AbsInt(h) == IF h < 0 THEN 0 - h ELSE h
FloatText_one_digit(h) ==
    LET a == AbsInt(h)
    IN  (IF h < 0 THEN <<"-">> ELSE <<>>) \o NatText(a \div FracUnit) \o <<".">>
            \o <<Digits[((a % FracUnit) \div 10) + 1]>>
FloatText(h) ==
    LET a == AbsInt(h)
        ip == a \div FracUnit
        fp == a % FracUnit
        frac == IF fp % 10 = 0 THEN <<Digits[(fp \div 10) + 1]>>
                ELSE <<Digits[(fp \div 10) + 1], Digits[(fp % 10) + 1]>>
    IN  (IF h < 0 THEN <<"-">> ELSE <<>>) \o NatText(ip) \o <<".">> \o frac

(* position of the first occurrence of character c in s, 0 when absent *)
IndexOf(s, c) == IF c \in Range(s)
                 THEN CHOOSE i \in 1..Len(s) : s[i] = c /\ \A j \in 1..(i - 1) : s[j] # c
                 ELSE 0

Unsigned(t) == IF t # <<>> /\ t[1] \in {"+", "-"} THEN Tail(t) ELSE t
IntPart(u)  == IF IndexOf(u, ".") = 0 THEN u ELSE SubSeq(u, 1, IndexOf(u, ".") - 1)
FracPart(u) == IF IndexOf(u, ".") = 0 THEN <<>> ELSE SubSeq(u, IndexOf(u, ".") + 1, Len(u))
OnlyDigits(s) == \A i \in 1..Len(s) : IsDigit(s[i])

(* float(text): optional sign, digits with at most one point, at least one  *)
(* digit; anything else is a ValueError.  (Exponents, inf and nan, which    *)
(* float() also accepts, are outside the texts of this model.)              *)
IsFloatText(s) ==
    Bind(Unsigned(Strip(s)), LAMBDA u :
    Bind(IntPart(u), LAMBDA ip :
    Bind(FracPart(u), LAMBDA f :
        /\ OnlyDigits(ip) /\ OnlyDigits(f)
        /\ Len(ip) + Len(f) > 0)))
ParseFloat(s) ==
    Bind(Strip(s), LAMBDA t :
    Bind(Unsigned(t), LAMBDA u :
    Bind(IntPart(u), LAMBDA ip :
    Bind(FracPart(u), LAMBDA f :
        LET f2 == IF Len(f) = 0 THEN <<"0", "0">>
                  ELSE IF Len(f) = 1 THEN f \o <<"0">> ELSE SubSeq(f, 1, 2)
            a == DigitsVal(ip) * FracUnit + DigitsVal(f2)
        IN  IF t[1] = "-" THEN 0 - a ELSE a))))

(* text.split(sep) for a one-character separator *)
RECURSIVE Split(_, _)
Split(text, sep) ==
    Bind(text, LAMBDA s :
    Bind(IndexOf(s, sep), LAMBDA i :
        IF i = 0 THEN <<s>>
        ELSE <<SubSeq(s, 1, i - 1)>> \o Split(SubSeq(s, i + 1, Len(s)), sep)))

(* sep.join(parts) *)
RECURSIVE Join(_, _)
Join(parts, sep) ==
    IF parts = <<>> THEN <<>>
    ELSE IF Len(parts) = 1 THEN parts[1]
    ELSE parts[1] \o <<sep>> \o Join(Tail(parts), sep)

-----------------------------------------------------------------------------
(* Error model: SerialDeviceErrors (SerialDeviceDriver.py:28-86)            *)
(* error_flags is a Python integer; it is kept as the set of the positions *)
(* of its one bits, so that bit 31 and the bits above it need no machine   *)
(* word.  x | (1 << b) adds position b, x & ~(1 << b) removes it.          *)

(* SerialDeviceErrors(): lines 33-45 *)
SerialDeviceErrors ==
    [error_flags |-> {},
     error_descriptions |->
        (0 :> "No Error" @@ 1 :> "Command Not Found" @@ 2 :> "Measurement Timeout"
           @@ 3 :> "Invalid Value" @@ 4 :> "Parse Error"
           @@ 5 :> "Communication Timeout")]

(* set_error(bit): lines 57-60 *)
set_error(self, bit) ==
    IF 0 <= bit /\ bit < 32
    THEN [self EXCEPT !.error_flags = @ \cup {bit}]
    ELSE self

(* clear_error(bit): lines 62-65 *)
clear_error(self, bit) ==
    IF 0 <= bit /\ bit < 32
    THEN [self EXCEPT !.error_flags = @ \ {bit}]
    ELSE self

(* clear_all_errors(): lines 67-69 *)
clear_all_errors(self) == [self EXCEPT !.error_flags = {}]

(* get_error_description(bit): lines 71-73 *)
get_error_description(self, bit) ==
    IF bit \in DOMAIN self.error_descriptions
    THEN self.error_descriptions[bit]
    ELSE "Unknown Error"

(* the loop of get_error_summary, from bit i on: lines 77-80 *)
RECURSIVE summary_errors(_, _, _)
summary_errors(self, i, errors) ==
    IF i >= 32 THEN errors
    ELSE IF i \in self.error_flags
         THEN summary_errors(self, i + 1,
                             Append(errors, <<get_error_description(self, i)>>))
         ELSE summary_errors(self, i + 1, errors)

(* get_error_summary(): lines 75-81; the text is the sequence of its pieces *)
get_error_summary_from_bit_one(self) == Join(summary_errors(self, 1, <<>>), " | ")
get_error_summary(self) == Join(summary_errors(self, 0, <<>>), " | ")

(* add_error_description(bit, description): lines 83-86 *)
add_error_description(self, bit, description) ==
    IF 0 <= bit /\ bit < 32 /\ bit \notin DOMAIN self.error_descriptions
    THEN [self EXCEPT !.error_descriptions = @ @@ (bit :> description)]
    ELSE self

(* the descriptions the RL2000 constructor adds (RL2000Driver.py:96-105) *)
RL2000Descriptions ==
    << <<5, "Communication Timeout">>, <<6, "Current Meter Temperature">>,
       <<7, "Current Load Temperature">>, <<8, "Voltmeter 1 Timeout">>,
       <<9, "Voltmeter 2 Timeout">>, <<10, "Current Meter Timeout">>,
       <<11, "Current Load Timeout">>, <<12, "Servo Error">>,
       <<13, "Fan Error">>, <<14, "SOA Error">> >>

RECURSIVE add_descriptions(_, _)
add_descriptions(self, list) ==
    IF list = <<>> THEN self
    ELSE add_descriptions(add_error_description(self, list[1][1], list[1][2]),
                          Tail(list))

(* device_errors of a freshly constructed driver of the given type; the   *)
(* LNAmplifier constructor adds nothing (LNAmplifierDriver.py:77)          *)
NewErrors(type) ==
    IF type = "RL2000" THEN add_descriptions(SerialDeviceErrors, RL2000Descriptions)
    ELSE SerialDeviceErrors

(* int(text, 16): optional sign, optional 0x prefix, then one or more hex  *)
(* digits; anything else is a ValueError                                   *)
HexDigits == <<"0", "1", "2", "3", "4", "5", "6", "7", "8", "9",
               "a", "b", "c", "d", "e", "f">>
Lower(c) == CASE c = "A" -> "a" [] c = "B" -> "b" [] c = "C" -> "c"
              [] c = "D" -> "d" [] c = "E" -> "e" [] c = "F" -> "f" [] OTHER -> c
IsHexDigit(c) == \E k \in 1..Len(HexDigits) : HexDigits[k] = Lower(c)
HexDigitVal(c) == (CHOOSE k \in 1..Len(HexDigits) : HexDigits[k] = Lower(c)) - 1
Unprefixed(t) ==
    IF Len(t) >= 2 /\ t[1] = "0" /\ t[2] \in {"x", "X"} THEN SubSeq(t, 3, Len(t)) ELSE t
Unsign(t) == IF t # <<>> /\ t[1] \in {"+", "-"} THEN Tail(t) ELSE t
IsHexText(s) ==
    Bind(Unprefixed(Unsign(Strip(s))), LAMBDA t :
        t # <<>> /\ \A i \in 1..Len(t) : IsHexDigit(t[i]))
RECURSIVE HexVal(_)
HexVal(t) == IF t = <<>> THEN 0
             ELSE 16 * HexVal(SubSeq(t, 1, Len(t) - 1)) + HexDigitVal(t[Len(t)])
ParseHex(s) ==
    Bind(Strip(s), LAMBDA t :
        IF t[1] = "-" THEN 0 - HexVal(Unprefixed(Tail(t)))
        ELSE HexVal(Unprefixed(Unsign(t))))

(* the positions of the one bits of a value 0 <= n < 2^31 *)
BitsOf(n) == {i \in 0..30 : (n \div (2 ^ i)) % 2 = 1}

(* str(self.error): the decimal text of the code, or "None" *)
ErrorText(e) == IF IsNone(e) THEN <<"N", "o", "n", "e">> ELSE IntText(Val(e))

-----------------------------------------------------------------------------
(* Transport: one open channel (SerialDeviceDriver.py:715-762) *)

EOL == <<"\r", "\n">>
Line(s) == s \o EOL      \* a line as the device puts it on the wire

(* a fresh channel: nothing written, nothing pending, I/O working *)
NewChan == [tx |-> <<>>, rx |-> <<>>, log |-> <<>>, mode |-> "ok"]

(* ser.readline(): the next pending line, or b'' when the timeout elapses *)
readline(c) == IF c.rx = <<>> THEN <<>> ELSE Head(c.rx)
after_readline(c) == IF c.rx = <<>> THEN c ELSE [c EXCEPT !.rx = Tail(@)]

(* readln(ser, read_error) on the lines l1 (and l2 when read_error).       *)
(* e = [error, edi]; pidx is self._port_index.  raised is the exception    *)
(* leaving readln, "" when it returns.                                     *)
readln_error(l2, e, pidx) ==
    IF IsIntText(Strip(l2))
    THEN [error |-> Some(ParseInt(Strip(l2))), edi |-> pidx]
    ELSE [error |-> None, edi |-> e.edi]

readln(l1, l2, read_error, e, pidx) ==
    IF ~Decodable(l1)
    THEN [resp |-> None, e |-> e, raised |-> "UnicodeDecodeError"]
    ELSE IF ~read_error
    THEN [resp |-> Some(Strip(l1)), e |-> e, raised |-> ""]
    ELSE IF ~Decodable(l2)
    THEN [resp |-> None, e |-> e, raised |-> "UnicodeDecodeError"]
    ELSE [resp |-> Some(Strip(l1)), e |-> readln_error(l2, e, pidx), raised |-> ""]

-----------------------------------------------------------------------------
(* command codes of SerialDevice, SerialDeviceDriver.py:91-105 *)
SerialDevice ==
    [cmd_model_name |-> <<"1">>,
     cmd_get_error |-> <<"7">>,
     cmd_clear_errors |-> <<"8">>,
     cmd_blink_led_red |-> <<"3">>,
     cmd_set_test_mode |-> <<"2", "5", "3">>,
     cmd_get_device_info |-> <<"2">>,
     cmd_set_led_red |-> <<"4">>,
     cmd_set_led_green |-> <<"5">>,
     cmd_set_led_off |-> <<"6">>,
     cmd_set_manufacture_date |-> <<"2", "4", "9">>,
     cmd_set_calibration_date |-> <<"2", "5", "1">>,
     cmd_set_board_revision |-> <<"2", "5", "4">>]

(* command codes of RL2000, RL2000Driver.py:29-93 *)
RL2000 ==
    [cmdSetCurrentLoad |-> <<"2", "0">>,
     cmdServoCurrentMeter |-> <<"2", "1">>,
     cmdSetSampleRate |-> <<"2", "6">>,
     cmdGetCurrentAndVoltage |-> <<"3", "0">>,
     cmdGetCurrentMeterTemp |-> <<"3", "1">>,
     cmdGetCurrentLoadTemp |-> <<"3", "2">>,
     cmdReadVoltmeters |-> <<"5", "0">>,
     cmdReadCurrentMeterAndLoad |-> <<"7", "1">>,
     cmdSetFanSpeed |-> <<"8", "0">>,
     cmdGetFanRpm |-> <<"8", "1">>,
     cmdExecuteSystemCheck |-> <<"9", "7">>]

(* command codes of LNAmplifier, LNAmplifierDriver.py:59-73 *)
LNAmplifier ==
    [cmdSetFilter |-> <<"1", "0">>,
     cmdGetFilter |-> <<"1", "1">>,
     cmdSetPointCount |-> <<"1", "2">>,
     cmdGetPointCount |-> <<"1", "3">>,
     cmdSetEEPROMFloatValue |-> <<"1", "4">>,
     cmdGetEEPROMFloatValue |-> <<"1", "5">>,
     cmdSetEEPROMBaseAddress |-> <<"1", "6">>,
     cmdGetEEPROMAddress |-> <<"1", "7">>,
     cmdSetEEPROMFloatPage |-> <<"1", "8">>,
     cmdGetEEPROMFloatPage |-> <<"1", "9">>,
     cmdGetEEPROMDataPageCount |-> <<"2", "0">>,
     cmdSetGain |-> <<"2", "1">>,
     cmdGetGain |-> <<"2", "2">>,
     cmdSetPowerOff |-> <<"2", "3">>,
     cmdSetPowerOn |-> <<"2", "4">>]

-----------------------------------------------------------------------------
(* Discovery (SerialDeviceDriver.py:200-265) *)

Endpoints == 1..NumEndpoints
ModelName == <<"R", "L">>            \* self._model_name

(* what is found behind an endpoint when it is probed *)
ProbeKinds == {"match", "matchx", "other", "mute", "busy", "garbled"}

(* the lines the probed endpoint answers to the identification command *)
IdentReply(kind) ==
    CASE kind = "match"   -> <<Line(ModelName), Line(<<"0">>)>>
      [] kind = "matchx"  -> <<Line(ModelName \o <<"x">>), Line(<<"0">>)>>
      [] kind = "other"   -> <<Line(<<"L", "N">>), Line(<<"0">>)>>
      [] kind = "garbled" -> <<Line(<<BadByte>>), Line(<<"0">>)>>
      [] OTHER            -> <<>>

(* comports(): the endpoints present, listed in ascending order *)
RECURSIVE Ascending(_)
Ascending(S) ==
    IF S = {} THEN <<>>
    ELSE LET m == CHOOSE x \in S : \A y \in S : x <= y
         IN  <<m>> \o Ascending(S \ {m})
Enumerations == {Ascending(S) : S \in SUBSET Endpoints}

(* port_ok(port_index): SerialDeviceDriver.py:267-280 *)
port_ok_unchecked(sp, index) == Len(sp) # 0
port_ok(sp, index) ==
    IF Len(sp) = 0 THEN FALSE
    ELSE PyGet(sp, index).is_open

(* the port property: the active Serial object or None *)
port(sp, pidx) == IF port_ok(sp, pidx) THEN Some(PyGet(sp, pidx)) ELSE None

(* the skip test of the loop, line 218 *)
already_checked(p, cp) == p \in cp

(* the duplicate test of line 242 *)
already_registered_omitted(sp, p) == FALSE
already_registered(sp, p) == \E i \in 1..Len(sp) : sp[i].portstr = p

(* the identification test of line 237 *)
ident_matches_any(response) == TRUE
ident_matches(response) == response = ModelName

(* the port_index setter: SerialDeviceDriver.py:191-198 *)
set_port_index_above_zero(sp, pidx, index) ==
    IF 0 < index /\ index < Len(sp) THEN index ELSE pidx
set_port_index_upto_len(sp, pidx, index) ==
    IF 0 <= index /\ index <= Len(sp) THEN index ELSE pidx
set_port_index(sp, pidx, index) ==
    IF 0 <= index /\ index < Len(sp) THEN index ELSE pidx

(* One iteration of the loop of lines 217-250 for endpoint p.              *)
(* s = [sp, cp, e, pidx, opened, written, temp, probes, raised]            *)
probe(s, p, kind) ==
    LET seen(opened, resp, registered) ==
            Append(s.probes, [port |-> p, opened |-> opened, resp |-> resp,
                              registered |-> registered])
    IN
    IF already_checked(p, s.cp) THEN s
    ELSE IF kind = "busy"
    THEN \* serial.Serial raises: caught by line 248, the endpoint stays unchecked
         [s EXCEPT !.probes = seen(FALSE, None, FALSE)]
    ELSE
      LET c0 == [NewChan EXCEPT !.tx = <<SerialDevice.cmd_model_name>>, !.rx = IdentReply(kind)]
          l1 == readline(c0)
          c1 == after_readline(c0)
          l2 == readline(c1)
          s1 == [s EXCEPT !.opened = Append(@, p), !.written = Append(@, p)]
      IN  Bind(readln(l1, l2, TRUE, s.e, s.pidx), LAMBDA r :
          IF r.raised # ""
          THEN \* except clause of line 248: the channel stays open, unchecked
               [s1 EXCEPT !.temp = @ \cup {p}, !.probes = seen(TRUE, None, FALSE)]
          ELSE
            LET s2 == [s1 EXCEPT !.e = r.e]
                unregistered == [s2 EXCEPT !.cp = @ \cup {p}, !.temp = @ \cup {p},
                                           !.probes = seen(TRUE, r.resp, FALSE)]
            IN  IF ident_matches(Val(r.resp))
                THEN IF ~already_registered(s2.sp, p)
                     THEN LET sp2 == Append(s2.sp, [portstr |-> p, is_open |-> TRUE])
                              s3  == [s2 EXCEPT !.sp = sp2,
                                                !.probes = seen(TRUE, r.resp, TRUE)]
                          IN  IF IsNone(port(sp2, s2.pidx))
                              THEN \* self.port is None: AttributeError, not caught
                                   [s3 EXCEPT !.raised = TRUE]
                              ELSE [s3 EXCEPT !.cp = @ \cup {p}]
                     ELSE unregistered
                ELSE unregistered)

RECURSIVE probe_all(_, _, _)
probe_all(s, ports, kinds) ==
    IF ports = <<>> \/ s.raised THEN s
    ELSE Bind(probe(s, Head(ports), kinds[Head(ports)]), LAMBDA s1 :
             probe_all(s1, Tail(ports), kinds))

(* lines 211-215: forget the checked endpoints that are no longer present *)
retain_all(cp, ports) == cp
retain_available(cp, ports) == cp \cap Range(ports)

(* check_connections().  A channel opened for a candidate and not put in   *)
(* the registry is never closed by the code: whether it is still open when *)
(* the call is over depends on when the interpreter finalizes the object.  *)
check_connections(ports, kinds) ==
    \E s0 \in {[sp |-> serial_ports, cp |-> retain_available(checked_ports, ports),
                e |-> [error |-> error, edi |-> error_device_index],
                pidx |-> _port_index, opened |-> <<>>, written |-> <<>>,
                temp |-> {}, probes |-> <<>>, raised |-> FALSE]} :
      \E s \in {probe_all(s0, ports, kinds)} :
        /\ serial_ports' = s.sp
        /\ checked_ports' = s.cp
        /\ error' = s.e.error
        /\ error_device_index' = s.e.edi
        /\ cc_enum' = ports
        /\ cc_checked0' = checked_ports
        /\ cc_opened' = s.opened
        /\ cc_written' = s.written
        /\ cc_probes' = s.probes
        /\ cc_dropped' = cc_dropped \cup (checked_ports \ Range(ports))
        /\ temp_open' \in SUBSET s.temp
        /\ IF s.raised
           THEN /\ cc_result' = "raise"
                /\ UNCHANGED <<connected, _port_index>>
           ELSE IF Len(s.sp) = 0
           THEN /\ cc_result' = "False"
                /\ connected' = FALSE
                /\ UNCHANGED _port_index
           ELSE /\ connected' = TRUE
                /\ _port_index' = set_port_index(s.sp, _port_index, 0)
                /\ cc_result' = IF debug /\ IsNone(port(s.sp, 0))
                                THEN "raise"   \* line 264: self.port is None
                                ELSE "True"
        /\ UNCHANGED <<debug, chan, dev, op, th, batch, ds, device_errors>>

(* the endpoints of an enumeration that the pass will probe *)
ToProbe(ports) == Range(ports) \ retain_available(checked_ports, ports)

CheckConnections ==
    \E ports \in Enumerations :
      \E kinds \in [ToProbe(ports) -> ProbeKinds] :
        check_connections(ports, kinds)

(* close(): SerialDeviceDriver.py:297-316 *)
close_all_dropping(sp) == SelectSeq(sp, LAMBDA h : FALSE)
close_first(sp) == [i \in 1..Len(sp) |-> IF i = 1 THEN [sp[i] EXCEPT !.is_open = FALSE]
                                             ELSE sp[i]]
close_all(sp) == [i \in 1..Len(sp) |-> [sp[i] EXCEPT !.is_open = FALSE]]

Close ==
    /\ serial_ports' = close_all(serial_ports)
    /\ cc_result' = "none"
    /\ UNCHANGED <<checked_ports, error, error_device_index, _port_index,
                   connected, debug>>
    /\ UNCHANGED <<passVars, wireVars, op, th, batch, ds, device_errors>>

Idle == [name |-> "none"]

(* the application selects the active handle (port_index = index) *)
SelectPort ==
    /\ op = Idle
    /\ \E index \in -1..Len(serial_ports) :
         _port_index' = set_port_index(serial_ports, _port_index, index)
    /\ cc_result' = "none"
    /\ UNCHANGED <<serial_ports, checked_ports, error, error_device_index,
                   connected, debug>>
    /\ UNCHANGED <<passVars, wireVars, op, th, batch, ds, device_errors>>

InitDriver ==
    /\ serial_ports = <<>>
    /\ checked_ports = {}
    /\ error = None
    /\ error_device_index = 0
    /\ _port_index = 0
    /\ connected = FALSE
    /\ debug \in BOOLEAN      \* False after construction; the debug setter may follow

InitDisc ==
    /\ InitDriver
    /\ cc_enum = <<>>
    /\ cc_checked0 = {}
    /\ cc_opened = <<>>
    /\ cc_written = <<>>
    /\ cc_result = "none"
    /\ temp_open = {}
    /\ cc_probes = <<>>
    /\ cc_dropped = {}
    /\ chan = <<>>
    /\ dev = <<>>
    /\ op = Idle
    /\ th = <<>>
    /\ batch = [state |-> "idle"]
    /\ ds = [phase |-> "idle"]
    /\ device_errors = SerialDeviceErrors

NextDisc == CheckConnections \/ Close \/ SelectPort

SpecDisc == InitDisc /\ [][NextDisc]_vars

-----------------------------------------------------------------------------
\* C1: the registry never holds two handles for the same endpoint, and a
\* check_connections pass never opens or writes to an endpoint that was in
\* the checked set when the pass was entered.
NoDuplicateNoReprobe ==
    /\ \A i, j \in 1..Len(serial_ports) :
         serial_ports[i].portstr = serial_ports[j].portstr => i = j
    /\ \A k \in 1..Len(cc_opened) : cc_opened[k] \notin cc_checked0
    /\ \A k \in 1..Len(cc_written) : cc_written[k] \notin cc_checked0

\* a pass that probed an endpoint already in the registry (it had disappeared
\* and came back) while skipping another endpoint that was checked at entry
ReprobeCaseReached ==
    /\ cc_result = "True"
    /\ \E p \in Range(cc_opened) :
         p \in temp_open /\ already_registered(serial_ports, p)
    /\ \E q \in cc_checked0 : q \in Range(cc_enum)

-----------------------------------------------------------------------------
(* Properties of discovery (SpecDisc).  cc_result is "True", "False" or     *)
(* "raise" exactly in the state in which a check_connections call is over. *)

Contains(text, sub) ==
    \E i \in 0..(Len(text) - Len(sub)) : SubSeq(text, i + 1, i + Len(sub)) = sub

Probes == {cc_probes[k] : k \in 1..Len(cc_probes)}
Returned == cc_result \in {"True", "False"}

\* C13: an endpoint whose identification reply contains the model name as a
\* substring is registered, also when the reply is longer than the model
\* name.
SubstringReplyRegistered ==
    \A q \in Probes :
        (q.resp # None /\ Contains(Val(q.resp), ModelName))
            => already_registered(serial_ports, q.port)

(* a reply made of the model name and one more character: the endpoint is  *)
(* marked checked and not registered                                       *)
LongerReplyNotRegistered ==
    /\ cc_result = "False"
    /\ \E q \in Probes :
         /\ q.resp = Some(ModelName \o <<"x">>)
         /\ q.port \in checked_ports
         /\ ~already_registered(serial_ports, q.port)

\* C14: when check_connections returns, no channel it opened is left open
\* outside the registry.
UnmatchedChannelsClosed == Returned => temp_open = {}

(* a candidate answered with another model name and its channel is open    *)
(* after the call                                                          *)
MismatchChannelLeftOpen ==
    /\ cc_result = "False"
    /\ \E q \in Probes : q.resp = Some(<<"L", "N">>) /\ q.port \in temp_open

\* C15: after a check_connections pass every endpoint of the enumeration is
\* in the checked set, whatever the outcome of its probe.
EnumeratedEndpointsChecked == Returned => Range(cc_enum) \subseteq checked_ports

(* an endpoint that could not be opened is not in the checked set after    *)
(* the pass, while the endpoint that answered is                           *)
BusyEndpointLeftUnchecked ==
    /\ cc_result = "True"
    /\ \E q \in Probes : ~q.opened /\ q.port \notin checked_ports
    /\ \E q \in Probes : q.opened /\ q.port \in checked_ports

(* endpoints that a pass dropped from the checked set and that this pass   *)
(* finds in its enumeration, unchecked                                     *)
Reappeared == (cc_dropped \cap Range(cc_enum)) \ cc_checked0

CheckConnectionsNeverRaises == cc_result # "raise"

(* close() was called, then a new endpoint answered with the model name:   *)
(* the call ends with an exception, with debug off                         *)
RaisedAfterClose ==
    /\ cc_result = "raise" /\ ~debug
    /\ Len(serial_ports) = 2
    /\ ~serial_ports[1].is_open /\ serial_ports[2].is_open
    /\ serial_ports[2].portstr \notin checked_ports

(* the endpoints registered by the pass, in the order of their probes *)
RegisteredNow == SelectSeq(cc_probes, LAMBDA q : q.registered)
Place(ports, p) == CHOOSE k \in 1..Len(ports) : ports[k] = p

TrueOnlyWithOpenHandle ==
    Returned =>
        (cc_result = "True" <=> \E i \in 1..Len(serial_ports) : serial_ports[i].is_open)

(* after close(), a pass that finds nothing new returns True with every    *)
(* handle closed                                                           *)
TrueWithAllHandlesClosed ==
    /\ cc_result = "True"
    /\ Len(serial_ports) # 0
    /\ \A i \in 1..Len(serial_ports) : ~serial_ports[i].is_open

\* C20: a handle is added to the registry only by a check_connections pass
\* that opened its endpoint, sent the identification command and read a
\* matching reply; no step removes or replaces a handle.
HandlesEnterByMatchingProbe ==
    [][/\ Len(serial_ports') >= Len(serial_ports)
       /\ \A i \in 1..Len(serial_ports) :
             serial_ports'[i].portstr = serial_ports[i].portstr
       /\ \A i \in (Len(serial_ports) + 1)..Len(serial_ports') :
             /\ cc_result' # "none"
             /\ serial_ports'[i].is_open
             /\ \E k \in 1..Len(cc_probes') :
                  /\ cc_probes'[k].port = serial_ports'[i].portstr
                  /\ cc_probes'[k].opened
                  /\ cc_probes'[k].port \in Range(cc_written')
                  /\ cc_probes'[k].resp # None
                  /\ Contains(Val(cc_probes'[k].resp), ModelName)]_vars

(* a registry of two handles, the second added by a later pass than the    *)
(* first                                                                   *)
SecondHandleAddedLater ==
    /\ cc_result = "True"
    /\ Len(serial_ports) = 2
    /\ Len(RegisteredNow) = 1
    /\ RegisteredNow[1].port = serial_ports[2].portstr

-----------------------------------------------------------------------------
(* The attached devices.  A device collects a command line and the argument *)
(* lines the command takes, then answers its payload line(s) followed by    *)
(* one error line.  kind: "ok" answers; "garble" answers a payload that is  *)
(* not a number; "mute" answers nothing, so every read times out.           *)

PageSize == 8
Erased == 0 - 999 * FracUnit          \* what a never-written cell reads as

(* number of argument lines a command takes, by device type *)
DevArgs(type, cmd) ==
    IF cmd \in {SerialDevice.cmd_set_manufacture_date, SerialDevice.cmd_set_calibration_date,
                SerialDevice.cmd_set_board_revision}
    THEN 1
    ELSE IF type = "RL2000"
    THEN CASE cmd \in {RL2000.cmdSetCurrentLoad, RL2000.cmdSetSampleRate, RL2000.cmdSetFanSpeed,
                       SerialDevice.cmd_set_test_mode} -> 1
           [] cmd = RL2000.cmdServoCurrentMeter -> 2
           [] OTHER -> 0
    ELSE CASE cmd \in {LNAmplifier.cmdSetFilter, LNAmplifier.cmdSetPointCount, LNAmplifier.cmdSetEEPROMBaseAddress,
                       LNAmplifier.cmdSetEEPROMFloatPage, LNAmplifier.cmdSetGain, LNAmplifier.cmdSetPowerOff,
                       LNAmplifier.cmdSetPowerOn, SerialDevice.cmd_set_test_mode, LNAmplifier.cmdGetEEPROMFloatValue} -> 1
           [] cmd = LNAmplifier.cmdSetEEPROMFloatValue -> 2
           [] OTHER -> 0

CeilDiv(n, k) == (n + k - 1) \div k

NewDevice(type, id) ==
    [type |-> type, id |-> id, kind |-> "ok", errline |-> <<"0">>,
     cmd |-> None, args |-> <<>>,
     point_count |-> 0, set |-> 0, page |-> 0, mem |-> <<>>, pages |-> 0]

(* the cell of dataset d, page p, position k (all 0-based) *)
LookupCell(mem, d, p, k) ==
    IF \E i \in 1..Len(mem) : mem[i].set = d /\ mem[i].page = p
    THEN (mem[CHOOSE i \in 1..Len(mem) : mem[i].set = d /\ mem[i].page = p]).vals[k + 1]
    ELSE Erased
Before(m, d, p) == m.set < d \/ (m.set = d /\ m.page < p)
After(m, d, p)  == m.set > d \/ (m.set = d /\ m.page > p)
StorePage(mem, d, p, vals) ==
    SelectSeq(mem, LAMBDA m : Before(m, d, p))
        \o <<[set |-> d, page |-> p, vals |-> vals]>>
        \o SelectSeq(mem, LAMBDA m : After(m, d, p))

(* readings of an RL2000, distinct per device *)
LoadTemp(d)  == 2340 + 70 * d.id
MeterTemp(d) == 3010 + 70 * d.id
Current(d, n) == 105 + 10 * d.id + n
Voltage(d, n) == 500 + 10 * d.id + n

Payload(d, text) == IF d.kind = "garble" THEN <<"x">> ELSE text

(* the seven lines of the device information: model name, firmware        *)
(* version, board version, serial number, USB power, manufacture date,     *)
(* calibration date                                                        *)
DeviceInfoLines(d) ==
    <<ModelName, <<"1", ".", "2">>, <<"3">>, IntText(d.id), <<"0", ".", "5">>,
      <<"0", "1", "-", "0", "2", "-", "2", "0", "2", "4">>,
      <<"0", "3", "-", "0", "4", "-", "2", "0", "2", "5">>>>

(* the line a device answers to the get-page command from the texts of its  *)
(* 8 cells.  kind "short" drops the last value, "long" adds a ninth,        *)
(* "badfield" sends 8 fields of which one is not a number, "blank" sends an *)
(* empty line, "badpage2" sends a malformed second page of a dataset        *)
PageReplyKinds == {"ok", "short", "long", "badfield", "blank", "garble", "mute"}
PageReply(d, cells) ==
    CASE d.kind = "garble"   -> <<"x">>
      [] d.kind = "badpage2" /\ d.page = 1 -> <<"x">>
      [] d.kind = "short"    -> Join(SubSeq(cells, 1, Len(cells) - 1), ",")
      [] d.kind = "long"     -> Join(Append(cells, <<"1", ".", "0">>), ",")
      [] d.kind = "badfield" -> Join([cells EXCEPT ![2] = <<"x">>], ",")
      [] d.kind = "blank"    -> <<>>
      [] OTHER               -> Join(cells, ",")

(* the payload lines a device answers to a complete command, and its new state *)
DevExecute(d, cmd, args) ==
    LET one(text) == [d |-> d, out |-> <<Payload(d, text)>>]
    IN
    IF cmd = SerialDevice.cmd_get_device_info
    THEN [d |-> d, out |-> DeviceInfoLines(d)]
    ELSE IF d.type = "RL2000"
    THEN CASE cmd = RL2000.cmdGetCurrentLoadTemp  -> one(FloatText(LoadTemp(d)))
           [] cmd = RL2000.cmdGetCurrentMeterTemp -> one(FloatText(MeterTemp(d)))
           [] cmd = RL2000.cmdGetFanRpm           -> one(FloatText(120000))
           [] cmd = RL2000.cmdReadCurrentMeterAndLoad ->
                [d |-> d, out |-> <<Payload(d, FloatText(Current(d, 1))),
                                    Payload(d, FloatText(Current(d, 2)))>>]
           [] cmd = RL2000.cmdReadVoltmeters ->
                [d |-> d, out |-> <<Payload(d, FloatText(Voltage(d, 1))),
                                    Payload(d, FloatText(Voltage(d, 2)))>>]
           [] cmd = RL2000.cmdGetCurrentAndVoltage ->
                [d |-> d, out |-> <<Payload(d, FloatText(Current(d, 1))),
                                    Payload(d, FloatText(Voltage(d, 1))),
                                    Payload(d, FloatText(Current(d, 2))),
                                    Payload(d, FloatText(Voltage(d, 2)))>>]
           [] OTHER -> one(<<>>)
    ELSE CASE cmd = LNAmplifier.cmdGetPointCount -> one(IntText(d.point_count))
           [] cmd = LNAmplifier.cmdSetPointCount ->
                IF IsIntText(args[1])
                THEN [d |-> [d EXCEPT !.point_count = ParseInt(args[1])], out |-> <<<<>>>>]
                ELSE one(<<>>)
           [] cmd = LNAmplifier.cmdGetEEPROMDataPageCount -> one(IntText(d.pages))
           [] cmd = LNAmplifier.cmdSetEEPROMBaseAddress ->
                IF IsIntText(args[1])
                THEN [d |-> [d EXCEPT !.set = ParseInt(args[1]), !.page = 0],
                      out |-> <<<<>>>>]
                ELSE one(<<>>)
           [] cmd = LNAmplifier.cmdSetEEPROMFloatPage ->
                Bind(Split(args[1], ","), LAMBDA parts :
                    IF Len(parts) = PageSize /\ \A i \in 1..Len(parts) : IsFloatText(parts[i])
                    THEN [d |-> [d EXCEPT
                                   !.mem = StorePage(@, d.set, d.page,
                                              [i \in 1..PageSize |-> ParseFloat(parts[i])]),
                                   !.page = @ + 1],
                          out |-> <<<<>>>>]
                    ELSE one(<<>>))
           [] cmd = LNAmplifier.cmdGetEEPROMFloatPage ->
                [d |-> [d EXCEPT !.page = @ + 1],
                 out |-> <<PageReply(d, [k \in 1..PageSize |->
                               FloatText(LookupCell(d.mem, d.set, d.page, k - 1))])>>]
           [] cmd = LNAmplifier.cmdGetEEPROMAddress -> one(IntText(d.set * 1000 + d.page * PageSize * 4))
           [] OTHER -> one(<<>>)

(* the device takes one line from the wire; out is what it puts on the wire *)
DevRecv(d, line) ==
    Bind(Strip(line), LAMBDA text :
    Bind(IF IsNone(d.cmd) THEN text ELSE Val(d.cmd), LAMBDA cmd :
    Bind(IF IsNone(d.cmd) THEN <<>> ELSE Append(d.args, text), LAMBDA args :
        IF d.kind = "mute" THEN [d |-> d, out |-> <<>>]
        ELSE IF Len(args) < DevArgs(d.type, cmd)
        THEN [d |-> [d EXCEPT !.cmd = Some(cmd), !.args = args], out |-> <<>>]
        ELSE Bind(DevExecute([d EXCEPT !.cmd = None, !.args = <<>>], cmd, args), LAMBDA x :
                 [d |-> x.d,
                  out |-> [i \in 1..Len(x.out) |-> Line(x.out[i])] \o <<Line(d.errline)>>]))))

-----------------------------------------------------------------------------
(* Transport on the registry.  w = [sp, ch, dv, e, pidx, debug] is the      *)
(* driver object together with the channels and devices of its handles;    *)
(* ch[i].log records the calls made on channel i: "w" a line written,      *)
(* "r" a response line read, "e" an error line read.                       *)

Pos(lst, i) == IF i >= 0 THEN i + 1 ELSE Len(lst) + i + 1

(* ser.write / ser.readline raise on a closed port or a failing channel *)
io_raises(w, i) == ~w.sp[i].is_open \/ w.ch[i].mode = "fault"

(* writeln(ser, command): SerialDeviceDriver.py:754-762 *)
writeln(w, i, command) ==
    IF io_raises(w, i) THEN [w |-> w, raised |-> "SerialException"]
    ELSE Bind(DevRecv(w.dv[i], command \o <<"\n">>), LAMBDA x :
             [w |-> [w EXCEPT !.ch[i].tx = Append(@, command \o <<"\n">>),
                              !.ch[i].log = Append(@, "w"),
                              !.ch[i].rx = @ \o x.out,
                              !.dv[i] = x.d],
              raised |-> ""])

(* readln(ser, read_error) on channel i: SerialDeviceDriver.py:715-742 *)
readln_on(w, i, read_error) ==
    IF io_raises(w, i) THEN [w |-> w, resp |-> None, raised |-> "SerialException"]
    ELSE
      Bind(w.ch[i], LAMBDA c0 :
      Bind(readline(c0), LAMBDA l1 :
      Bind([after_readline(c0) EXCEPT !.log = Append(@, "r")], LAMBDA c1 :
      Bind(readline(c1), LAMBDA l2 :
      Bind(IF read_error /\ Decodable(l1)
           THEN [after_readline(c1) EXCEPT !.log = Append(@, "e")] ELSE c1, LAMBDA cN :
      Bind(readln(l1, l2, read_error, w.e, w.pidx), LAMBDA r :
          [w |-> [w EXCEPT !.ch[i] = cN, !.e = r.e], resp |-> r.resp,
           raised |-> r.raised]))))))

(* read_value(read_error, port_index): SerialDeviceDriver.py:494-499 *)
read_value(w, read_error, port_index) ==
    IF ~PyIndexOK(w.sp, port_index) THEN [w |-> w, ret |-> None]
    ELSE Bind(readln_on(w, Pos(w.sp, port_index), read_error), LAMBDA r :
             [w |-> r.w, ret |-> IF r.raised = "" THEN r.resp ELSE None])

(* send_command(command, port_index): SerialDeviceDriver.py:501-507 *)
send_command(w, command, port_index) ==
    IF ~PyIndexOK(w.sp, port_index) THEN [w |-> w, ret |-> FALSE]
    ELSE Bind(writeln(w, Pos(w.sp, port_index), command), LAMBDA r :
             [w |-> r.w, ret |-> r.raised = ""])

(* send_value(value, port_index): SerialDeviceDriver.py:509-513; text is str(value) *)
send_value(w, text, port_index) == send_command(w, text, port_index)

(* port_ok raises IndexError on an index outside a non-empty registry *)
port_ok_raises(sp, index) == Len(sp) # 0 /\ ~PyIndexOK(sp, index)

(* Python results: t is the kind of result ("None", "True", "False", "int",  *)
(* "str", "list", "value", "raise", or "running" for a thread), v its value *)
Ret(t, v) == [t |-> t, v |-> v]
RNone == Ret("None", 0)
RBool(b) == Ret(IF b THEN "True" ELSE "False", 0)
ROpt(o)   == IF IsNone(o) THEN RNone ELSE Ret("str", Val(o))
ROptInt(o) == IF IsNone(o) THEN RNone ELSE Ret("int", Val(o))

(* the exchange shared by the set-style operations: the command line, the  *)
(* argument lines, then one read with the paired error line                *)
RECURSIVE send_values(_, _, _)
send_values(w, texts, port_index) ==
    IF texts = <<>> THEN w
    ELSE Bind(send_value(w, Head(texts), port_index), LAMBDA r :
             send_values(r.w, Tail(texts), port_index))

set_exchange_unread(w, cmd, texts, port_index) ==
    Bind(send_command(w, cmd, port_index), LAMBDA a :
    Bind(send_values(a.w, texts, port_index), LAMBDA b :
        read_value(b, FALSE, port_index).w))
set_exchange(w, cmd, texts, port_index) ==
    Bind(send_command(w, cmd, port_index), LAMBDA a :
    Bind(send_values(a.w, texts, port_index), LAMBDA b :
        read_value(b, TRUE, port_index).w))

(* an operation that returns nothing: set_filter, set_gain, set_test_mode   *)
(* (LNAmplifierDriver.py:673-711, 821-837), set_current_load,               *)
(* set_fan_speed, set_sample_rate, set_servo_voltage, set_test_mode,        *)
(* execute_system_check (RL2000Driver.py:130-141, 420-533)                  *)
set_plain(w, cmd, texts, port_index) ==
    IF port_ok_raises(w.sp, port_index) THEN [w |-> w, ret |-> RNone]
    ELSE IF port_ok(w.sp, port_index)
    THEN [w |-> set_exchange(w, cmd, texts, port_index), ret |-> RNone]
    ELSE [w |-> w, ret |-> RNone]

(* an operation documented as returning a bool: set_eeprom_base_address,    *)
(* set_eeprom_float_value, set_power_off, set_power_on                      *)
(* (LNAmplifierDriver.py:441-476, 632-671, 759-819)                         *)
set_bool(w, cmd, texts, port_index) ==
    IF port_ok_raises(w.sp, port_index) THEN [w |-> w, ret |-> RBool(FALSE)]
    ELSE IF port_ok(w.sp, port_index)
    THEN [w |-> set_exchange(w, cmd, texts, port_index), ret |-> RBool(TRUE)]
    ELSE [w |-> w, ret |-> IF w.debug THEN RBool(FALSE) ELSE RNone]

set_filter(w, filter_value, port_index) ==
    set_plain(w, LNAmplifier.cmdSetFilter, <<filter_value>>, port_index)
set_gain(w, gain_value, port_index) ==
    set_plain(w, LNAmplifier.cmdSetGain, <<gain_value>>, port_index)
set_test_mode(w, port_index, value) ==
    set_plain(w, SerialDevice.cmd_set_test_mode, <<IntText(IF value THEN 1 ELSE 0)>>, port_index)
set_current_load(w, port_index, value) ==
    set_plain(w, RL2000.cmdSetCurrentLoad, <<FloatText(value)>>, port_index)
set_fan_speed(w, port_index, value) ==
    set_plain(w, RL2000.cmdSetFanSpeed, <<IntText(value)>>, port_index)
Clamp03(n) == IF n < 0 THEN 0 ELSE IF n > 3 THEN 3 ELSE n
set_sample_rate(w, port_index, sample_rate) ==
    set_plain(w, RL2000.cmdSetSampleRate, <<IntText(Clamp03(sample_rate))>>, port_index)
set_servo_voltage(w, port_index, voltage, channel) ==
    set_plain(w, RL2000.cmdServoCurrentMeter, <<FloatText(voltage), IntText(channel)>>, port_index)
execute_system_check(w, port_index) ==
    set_plain(w, RL2000.cmdExecuteSystemCheck, <<>>, port_index)

set_eeprom_base_address(w, data_index, port_index) ==
    set_bool(w, LNAmplifier.cmdSetEEPROMBaseAddress, <<IntText(data_index)>>, port_index)
set_eeprom_float_value(w, address, float_value, port_index) ==
    set_bool(w, LNAmplifier.cmdSetEEPROMFloatValue, <<IntText(address), FloatText(float_value)>>,
             port_index)
set_power_off(w, port_index) == set_bool(w, LNAmplifier.cmdSetPowerOff, <<IntText(0)>>, port_index)
set_power_on(w, port_index)  == set_bool(w, LNAmplifier.cmdSetPowerOn, <<IntText(0)>>, port_index)

(* set_point_count: LNAmplifierDriver.py:713-757 *)
valid_point_counts == {51, 101, 201, 401}
set_point_count_unvalidated(w, point_count, port_index) ==
    set_bool(w, LNAmplifier.cmdSetPointCount, <<IntText(point_count)>>, port_index)
set_point_count(w, point_count, port_index) ==
    IF point_count \notin valid_point_counts THEN [w |-> w, ret |-> RBool(FALSE)]
    ELSE set_bool(w, LNAmplifier.cmdSetPointCount, <<IntText(point_count)>>, port_index)

(* set_eeprom_float_page: LNAmplifierDriver.py:583-630 *)
page_text(float_values) ==
    Join([k \in 1..Len(float_values) |-> FloatText(float_values[k])], ",")
set_eeprom_float_page(w, float_values, port_index) ==
    IF Len(float_values) # PageSize THEN [w |-> w, ret |-> RBool(FALSE)]
    ELSE set_bool(w, LNAmplifier.cmdSetEEPROMFloatPage, <<page_text(float_values)>>, port_index)

(* execute_set_command on the active handle: SerialDeviceDriver.py:350-385. *)
(* value is None or the text of str(value).                                 *)
execute_set_command(w, command, value) ==
    IF port_ok(w.sp, w.pidx)
    THEN LET i == Pos(w.sp, w.pidx)
         IN  Bind(writeln(w, i, command), LAMBDA a :
             Bind(IF a.raised # "" \/ IsNone(value) THEN a
                  ELSE writeln(a.w, i, Val(value)), LAMBDA b :
                 IF b.raised # "" THEN [w |-> b.w, ret |-> RNone]
                 ELSE Bind(readln_on(b.w, i, TRUE), LAMBDA r :
                          IF r.raised # "" THEN [w |-> r.w, ret |-> RNone]
                          ELSE [w |-> r.w, ret |-> ROptInt(r.w.e.error)])))
    ELSE [w |-> w, ret |-> RNone]

(* execute_get_command on the active handle: SerialDeviceDriver.py:318-348. *)
(* "if self._error" is false for None and for 0.                            *)
Truthy(o) == ~IsNone(o) /\ Val(o) # 0
execute_get_command(w, command) ==
    IF port_ok(w.sp, w.pidx)
    THEN LET i == Pos(w.sp, w.pidx)
         IN  Bind(writeln(w, i, command), LAMBDA a :
                 IF a.raised # "" THEN [w |-> a.w, ret |-> RNone]
                 ELSE Bind(readln_on(a.w, i, TRUE), LAMBDA r :
                          IF r.raised # "" THEN [w |-> r.w, ret |-> RNone]
                          ELSE IF Truthy(r.w.e.error) THEN [w |-> r.w, ret |-> RNone]
                          ELSE [w |-> r.w, ret |-> ROpt(r.resp)]))
    ELSE [w |-> w, ret |-> RNone]

(* a base-class operation taking an optional port_index (None = active      *)
(* handle): blink_led_red, set_led_*, get_error, set_*_date                 *)
(* (SerialDeviceDriver.py:436-492, 558-713).  port_index is None or Some(i) *)
with_port(w, port_index) ==
    IF IsNone(port_index) THEN w ELSE [w EXCEPT !.pidx =
         set_port_index(w.sp, w.pidx, Val(port_index))]
blink_led_red(w, port_index) ==
    IF ~IsNone(port_index) /\ port_ok_raises(w.sp, Val(port_index))
    THEN [w |-> w, ret |-> RNone]
    ELSE IF ~IsNone(port_index) /\ ~port_ok(w.sp, Val(port_index))
    THEN [w |-> w, ret |-> RNone]
    ELSE Bind(with_port(w, port_index), LAMBDA v :
             IF ~port_ok(v.sp, v.pidx) THEN [w |-> v, ret |-> RNone]
             ELSE execute_set_command(v, SerialDevice.cmd_blink_led_red, None))
get_error(w, port_index) ==
    IF ~IsNone(port_index) /\ port_ok_raises(w.sp, Val(port_index))
    THEN [w |-> w, ret |-> RNone]
    ELSE IF ~IsNone(port_index) /\ ~port_ok(w.sp, Val(port_index))
    THEN [w |-> w, ret |-> RNone]
    ELSE Bind(with_port(w, port_index), LAMBDA v :
             IF ~port_ok(v.sp, v.pidx) THEN [w |-> v, ret |-> RNone]
             ELSE execute_get_command(v, SerialDevice.cmd_get_error))

(* set_led_red, set_led_green, set_led_off, set_manufacture_date,           *)
(* set_calibration_date and set_board_revision share one body               *)
(* (SerialDeviceDriver.py:515-713); value is None or the text sent after    *)
(* the command, the arguments having passed their validation                *)
set_with_optional_port(w, cmd, value, port_index) ==
    IF ~IsNone(port_index) /\ port_ok_raises(w.sp, Val(port_index))
    THEN [w |-> w, ret |-> RNone]
    ELSE IF ~IsNone(port_index) /\ ~port_ok(w.sp, Val(port_index))
    THEN [w |-> w, ret |-> RNone]
    ELSE Bind(with_port(w, port_index), LAMBDA v :
             IF ~port_ok(v.sp, v.pidx) THEN [w |-> v, ret |-> RNone]
             ELSE execute_set_command(v, cmd, value))

(* the reads of get_device_info, lines 415-427: field 1 is always read;    *)
(* fields 2 to 7 are read while self.error is falsy, a field that is not   *)
(* read keeping the default of SerialDeviceInfo; field 7 is read with the  *)
(* error line                                                               *)
RECURSIVE read_device_info(_, _, _, _)
read_device_info(w, i, k, fields) ==
    IF k > 7 THEN [w |-> w, fields |-> fields, raised |-> FALSE]
    ELSE IF k > 1 /\ Truthy(w.e.error)
    THEN read_device_info(w, i, k + 1, Append(fields, None))
    ELSE Bind(readln_on(w, i, k = 7), LAMBDA r :
             IF r.raised # "" THEN [w |-> r.w, fields |-> fields, raised |-> TRUE]
             ELSE read_device_info(r.w, i, k + 1, Append(fields, r.resp)))

(* get_device_info: SerialDeviceDriver.py:387-434.  The port_ok(port_index) *)
(* of line 398 is outside the try block of line 409.                        *)
get_device_info(w, port_index) ==
    IF ~IsNone(port_index) /\ port_ok_raises(w.sp, Val(port_index))
    THEN [w |-> w, ret |-> Ret("raise", "IndexError")]
    ELSE IF ~IsNone(port_index) /\ ~port_ok(w.sp, Val(port_index))
    THEN [w |-> w, ret |-> RNone]
    ELSE Bind(with_port(w, port_index), LAMBDA v :
             IF ~port_ok(v.sp, v.pidx) THEN [w |-> v, ret |-> RNone]
             ELSE Bind(writeln(v, Pos(v.sp, v.pidx), SerialDevice.cmd_get_device_info),
                       LAMBDA a :
                  IF a.raised # "" THEN [w |-> a.w, ret |-> RNone]
                  ELSE Bind(read_device_info(a.w, Pos(v.sp, v.pidx), 1, <<>>), LAMBDA x :
                           IF x.raised THEN [w |-> x.w, ret |-> RNone]
                           ELSE [w |-> x.w,
                                 ret |-> Ret("info", [fields |-> x.fields,
                                                      Error |-> x.w.e.error])])))

(* a get-style operation: get_filter, get_gain, get_point_count,            *)
(* get_eeprom_address, get_eeprom_data_page_count                           *)
(* (LNAmplifierDriver.py:79-139, 331-399)                                   *)
get_plain(w, cmd, port_index) ==
    IF port_ok_raises(w.sp, port_index) THEN [w |-> w, ret |-> RNone]
    ELSE IF port_ok(w.sp, port_index)
    THEN Bind(send_command(w, cmd, port_index), LAMBDA a :
         Bind(read_value(a.w, TRUE, port_index), LAMBDA r :
             [w |-> r.w, ret |-> ROpt(r.ret)]))
    ELSE [w |-> w, ret |-> RNone]
get_filter(w, port_index) == get_plain(w, LNAmplifier.cmdGetFilter, port_index)
get_gain(w, port_index) == get_plain(w, LNAmplifier.cmdGetGain, port_index)
get_point_count(w, port_index) == get_plain(w, LNAmplifier.cmdGetPointCount, port_index)
get_eeprom_address(w, port_index) == get_plain(w, LNAmplifier.cmdGetEEPROMAddress, port_index)
get_eeprom_data_page_count(w, port_index) ==
    get_plain(w, LNAmplifier.cmdGetEEPROMDataPageCount, port_index)

(* get_eeprom_float_page: LNAmplifierDriver.py:278-329 *)
get_eeprom_float_page_any_count(w, port_index) ==
    IF port_ok_raises(w.sp, port_index) THEN [w |-> w, ret |-> RNone]
    ELSE IF port_ok(w.sp, port_index)
    THEN Bind(send_command(w, LNAmplifier.cmdGetEEPROMFloatPage, port_index), LAMBDA a :
         Bind(read_value(a.w, TRUE, port_index), LAMBDA r :
             IF IsNone(r.ret) THEN [w |-> r.w, ret |-> RNone]
             ELSE Bind(Split(Val(r.ret), ","), LAMBDA parts :
                 IF \E k \in 1..Len(parts) : ~IsFloatText(parts[k])
                 THEN [w |-> r.w, ret |-> RNone]
                 ELSE [w |-> r.w,
                       ret |-> Ret("list", [k \in 1..Len(parts) |-> ParseFloat(parts[k])])])))
    ELSE [w |-> w, ret |-> RNone]
get_eeprom_float_page(w, port_index) ==
    IF port_ok_raises(w.sp, port_index) THEN [w |-> w, ret |-> RNone]
    ELSE IF port_ok(w.sp, port_index)
    THEN Bind(send_command(w, LNAmplifier.cmdGetEEPROMFloatPage, port_index), LAMBDA a :
         Bind(read_value(a.w, TRUE, port_index), LAMBDA r :
             IF IsNone(r.ret) THEN [w |-> r.w, ret |-> RNone]
             ELSE Bind(Split(Val(r.ret), ","), LAMBDA parts :
                 IF \E k \in 1..Len(parts) : ~IsFloatText(parts[k])
                 THEN [w |-> r.w, ret |-> RNone]
                 ELSE IF Len(parts) # PageSize THEN [w |-> r.w, ret |-> RNone]
                 ELSE [w |-> r.w,
                       ret |-> Ret("list", [k \in 1..Len(parts) |-> ParseFloat(parts[k])])])))
    ELSE [w |-> w, ret |-> RNone]

(* clear_errors: SerialDeviceDriver.py:282-293.  read_value returns the    *)
(* response text or None, neither of which equals the integer 0, so         *)
(* "error != 0" holds for every handle and return_error is overwritten.     *)
RECURSIVE clear_errors_from(_, _, _)
clear_errors_from(w, index, return_error) ==
    IF index >= Len(w.sp) THEN [w |-> w, ret |-> return_error]
    ELSE Bind(send_command(w, SerialDevice.cmd_clear_errors, index), LAMBDA a :
         Bind(read_value(a.w, TRUE, index), LAMBDA r :
             clear_errors_from(r.w, index + 1, ROpt(r.ret))))
clear_errors(w) == clear_errors_from(w, 0, Ret("int", 0))

-----------------------------------------------------------------------------
(* Catalog operations called one at a time on a registry of CatHandles     *)
(* handles.  A call is followed by Return, which forgets the observation.  *)

World == [sp |-> serial_ports, ch |-> chan, dv |-> dev,
          e |-> [error |-> error, edi |-> error_device_index],
          pidx |-> _port_index, debug |-> debug]

Commit(w) ==
    /\ serial_ports' = w.sp
    /\ chan' = w.ch
    /\ dev' = w.dv
    /\ error' = w.e.error
    /\ error_device_index' = w.e.edi
    /\ _port_index' = w.pidx
    /\ debug' = w.debug

(* error lines a device may send, with the error code each stands for *)
ErrorLines ==
    { [text |-> <<"0">>,            val |-> Some(0)],
      [text |-> <<"4">>,            val |-> Some(4)],
      [text |-> <<"1", "2">>,       val |-> Some(12)],
      [text |-> <<"-", "1">>,       val |-> Some(0 - 1)],
      [text |-> <<" ", "3">>,       val |-> Some(3)],
      [text |-> <<"x">>,            val |-> None],
      [text |-> <<"1", "x">>,       val |-> None],
      [text |-> <<>>,               val |-> None],
      [text |-> <<BadByte>>,        val |-> None] }

(* how the device and the channel of the addressed handle behave in a call *)
Behaviours ==
    { [kind |-> "ok",   errline |-> <<"0">>, mode |-> "ok"],
      [kind |-> "ok",   errline |-> <<"4">>, mode |-> "ok"],
      [kind |-> "ok",   errline |-> <<"x">>, mode |-> "ok"],
      [kind |-> "mute", errline |-> <<"0">>, mode |-> "ok"],
      [kind |-> "ok",   errline |-> <<"0">>, mode |-> "fault"] }

ClearLogs(ch) == [i \in 1..Len(ch) |-> NewChan]

(* the world a call starts from: logs empty, handle i behaving as b *)
Prepare(w, i, b) ==
    [w EXCEPT !.ch = [ClearLogs(w.ch) EXCEPT ![i].mode = b.mode],
              !.dv[i].kind = b.kind, !.dv[i].errline = b.errline]

PlainSetOps == {"set_filter", "set_gain", "set_test_mode", "set_current_load",
                "set_fan_speed", "set_sample_rate", "set_servo_voltage"}
BoolSetOps  == {"set_point_count", "set_eeprom_base_address", "set_eeprom_float_page",
                "set_eeprom_float_value", "set_power_on", "set_power_off"}
ActiveOps   == {"execute_set_command", "execute_set_command_value",
                "execute_get_command"}
OptPortOps  == {"blink_led_red", "get_error", "get_device_info", "set_led_red",
                "set_led_green", "set_led_off", "set_manufacture_date",
                "set_calibration_date", "set_board_revision"}
GetOps      == {"get_filter", "get_gain", "get_point_count", "get_eeprom_address",
                "get_eeprom_data_page_count", "get_eeprom_float_page",
                "execute_system_check"}
SetStyleOps == PlainSetOps \cup BoolSetOps
                 \cup {"execute_set_command", "execute_set_command_value"}
CatalogOps  == SetStyleOps \cup ActiveOps \cup OptPortOps \cup GetOps

(* the operations each driver class offers: RL2000(SerialDevice) and       *)
(* LNAmplifier(SerialDevice)                                                *)
OpsOf(type) ==
    IF type = "RL2000"
    THEN {"set_test_mode", "set_current_load", "set_fan_speed", "set_sample_rate",
          "set_servo_voltage", "execute_system_check"}
         \cup ActiveOps \cup OptPortOps
    ELSE {"set_filter", "set_gain", "set_test_mode"} \cup BoolSetOps
         \cup (GetOps \ {"execute_system_check"}) \cup ActiveOps \cup OptPortOps

(* the values an operation may be given *)
ArgsOf(name) == IF name = "set_point_count" THEN {0 - 1, 0, 50, 51, 401, 500} ELSE {1}

(* a date mm-dd-yyyy, and the revision a.00 encoded as (a << 8) | 0 *)
DateText(a) == <<"0", Digits[a + 1], "-", "0", "2", "-", "2", "0", "2", "4">>

(* the call name(..., port_index = p) with argument a *)
Call(w, name, p, a) ==
    CASE name = "set_filter"        -> set_filter(w, IntText(a), p)
      [] name = "set_gain"          -> set_gain(w, IntText(a), p)
      [] name = "set_test_mode"     -> set_test_mode(w, p, a # 0)
      [] name = "set_current_load"  -> set_current_load(w, p, a * FracUnit)
      [] name = "set_fan_speed"     -> set_fan_speed(w, p, a)
      [] name = "set_sample_rate"   -> set_sample_rate(w, p, a)
      [] name = "set_servo_voltage" -> set_servo_voltage(w, p, a * FracUnit, 0)
      [] name = "set_point_count"   -> set_point_count(w, a, p)
      [] name = "set_eeprom_base_address" -> set_eeprom_base_address(w, a, p)
      [] name = "set_eeprom_float_page" ->
             set_eeprom_float_page(w, [k \in 1..PageSize |-> a * FracUnit + k], p)
      [] name = "set_eeprom_float_value" -> set_eeprom_float_value(w, a, a * FracUnit, p)
      [] name = "set_power_on"      -> set_power_on(w, p)
      [] name = "set_power_off"     -> set_power_off(w, p)
      [] name = "execute_set_command" -> execute_set_command(w, SerialDevice.cmd_blink_led_red, None)
      [] name = "execute_set_command_value" ->
             execute_set_command(w, SerialDevice.cmd_set_test_mode, Some(IntText(a)))
      [] name = "execute_get_command" -> execute_get_command(w, SerialDevice.cmd_get_error)
      [] name = "blink_led_red"     -> blink_led_red(w, Some(p))
      [] name = "get_error"         -> get_error(w, Some(p))
      [] name = "get_device_info"   -> get_device_info(w, Some(p))
      [] name = "set_led_red" ->
             set_with_optional_port(w, SerialDevice.cmd_set_led_red, None, Some(p))
      [] name = "set_led_green" ->
             set_with_optional_port(w, SerialDevice.cmd_set_led_green, None, Some(p))
      [] name = "set_led_off" ->
             set_with_optional_port(w, SerialDevice.cmd_set_led_off, None, Some(p))
      [] name = "set_manufacture_date" ->
             set_with_optional_port(w, SerialDevice.cmd_set_manufacture_date,
                                    Some(DateText(a)), Some(p))
      [] name = "set_calibration_date" ->
             set_with_optional_port(w, SerialDevice.cmd_set_calibration_date,
                                    Some(DateText(a)), Some(p))
      [] name = "set_board_revision" ->
             set_with_optional_port(w, SerialDevice.cmd_set_board_revision,
                                    Some(IntText(a * 256)), Some(p))
      [] name = "get_filter"        -> get_filter(w, p)
      [] name = "get_gain"          -> get_gain(w, p)
      [] name = "get_point_count"   -> get_point_count(w, p)
      [] name = "get_eeprom_address" -> get_eeprom_address(w, p)
      [] name = "get_eeprom_data_page_count" -> get_eeprom_data_page_count(w, p)
      [] name = "get_eeprom_float_page" -> get_eeprom_float_page(w, p)
      [] name = "execute_system_check" -> execute_system_check(w, p)

(* what a run has put on the wire of each handle *)
Wire(ch) == [i \in 1..Len(ch) |-> ch[i].tx]

Pre(p) == [error |-> error, edi |-> error_device_index, pidx |-> _port_index,
           rx |-> chan[p + 1].rx, is_open |-> serial_ports[p + 1].is_open]

CatalogCall ==
    /\ op = Idle
    /\ \E name \in CatalogOps, p \in 0..(Len(serial_ports) - 1), b \in Behaviours :
         \E a \in ArgsOf(name) :
           /\ name \in OpsOf(dev[p + 1].type)
           /\ name \in ActiveOps => p = _port_index
           /\ \E w \in {Prepare(World, p + 1, b)} : \E r \in {Call(w, name, p, a)} :
                \E t \in {Call([w EXCEPT !.debug = ~@], name, p, a)} :
                /\ Commit(r.w)
                /\ op' = [name |-> name, port |-> p, arg |-> a, ret |-> r.ret,
                          pre |-> Pre(p), mode |-> b.mode, kind |-> b.kind,
                          twin |-> [ret |-> t.ret, tx |-> Wire(t.w.ch)]]
    /\ UNCHANGED <<checked_ports, connected, discVars, th, batch, ds, device_errors>>

(* a catalog operation called with an index past the end of the registry *)
InvalidIndexCall ==
    /\ op = Idle
    /\ Len(serial_ports) # 0
    /\ \E name \in OpsOf(dev[1].type) \ ActiveOps, a \in {1} :
         \E p \in Len(serial_ports)..(Len(serial_ports) + 1) :
           \E w \in {World} : \E r \in {Call(w, name, p, a)} :
             /\ Commit(r.w)
             /\ op' = [name |-> "invalid_index", call |-> name, port |-> p, ret |-> r.ret,
                       pre |-> [error |-> error, edi |-> error_device_index,
                                pidx |-> _port_index]]
    /\ UNCHANGED <<checked_ports, connected, discVars, th, batch, ds, device_errors>>

(* get_eeprom_float_page(p) with each shape of reply the device may send *)
FloatPageCall ==
    /\ op = Idle
    /\ dev[1].type = "LNA"
    /\ \E p \in 0..(Len(serial_ports) - 1), kind \in PageReplyKinds,
          errline \in {<<"0">>, <<"4">>} :
         \E w \in {Prepare(World, p + 1, [kind |-> kind, errline |-> errline, mode |-> "ok"])} :
           \E r \in {get_eeprom_float_page(w, p)} :
             /\ Commit(r.w)
             /\ op' = [name |-> "float_page", port |-> p, arg |-> 0, ret |-> r.ret,
                       pre |-> Pre(p), mode |-> "ok", kind |-> kind]
    /\ UNCHANGED <<checked_ports, connected, discVars, th, batch, ds, device_errors>>

ClearErrorsCall ==
    /\ op = Idle
    /\ \E p \in 0..(Len(serial_ports) - 1), b \in Behaviours :
         \E w \in {Prepare(World, p + 1, b)} : \E r \in {clear_errors(w)} :
           /\ Commit(r.w)
           /\ op' = [name |-> "clear_errors", port |-> p, arg |-> 0, ret |-> r.ret,
                     pre |-> Pre(p), mode |-> b.mode, kind |-> b.kind,
                     errline |-> b.errline]
    /\ UNCHANGED <<checked_ports, connected, discVars, th, batch, ds, device_errors>>

(* writeln(ser, command) followed by readln(ser, read_error), as the       *)
(* transport is used by execute_*_command, get_device_info and             *)
(* check_connections                                                       *)
WritelnReadln ==
    /\ op = Idle
    /\ \E p \in 0..(Len(serial_ports) - 1), el \in ErrorLines, read_error \in BOOLEAN,
          kind \in {"ok", "mute"} :
         LET b  == [kind |-> kind, errline |-> el.text, mode |-> "ok"]
         IN  /\ serial_ports[p + 1].is_open
             /\ \E w0 \in {Prepare(World, p + 1, b)} :
                \E a \in {writeln(w0, p + 1, SerialDevice.cmd_get_error)} :
                  \E r \in {readln_on(a.w, p + 1, read_error)} :
                    /\ Commit(r.w)
                    /\ op' = [name |-> "writeln_readln", port |-> p, arg |-> 0,
                              ret |-> IF r.raised = "" THEN ROpt(r.resp)
                                      ELSE Ret("raise", r.raised),
                              pre |-> Pre(p), mode |-> "ok", kind |-> kind,
                              read_error |-> read_error, el |-> el]
    /\ UNCHANGED <<checked_ports, connected, discVars, th, batch, ds, device_errors>>

(* the error property: SerialDeviceDriver.py:141-144 *)
error_property(e) == ROptInt(e)

(* the error_description property: SerialDeviceDriver.py:146-152.  The     *)
(* register is cleared first, so that is what is left when int() raises.   *)
error_description(self, e) ==
    Bind(clear_all_errors(self), LAMBDA cleared :
    Bind(<<"0", "x">> \o ErrorText(e), LAMBDA hexString :
        IF ~IsHexText(hexString)
        THEN [de |-> cleared, ret |-> Ret("raise", "ValueError")]
        ELSE Bind([cleared EXCEPT !.error_flags = BitsOf(ParseHex(hexString))],
                  LAMBDA loaded :
                      [de |-> loaded, ret |-> Ret("str", get_error_summary(loaded))])))

(* reading the error property between two calls *)
ErrorRead ==
    /\ op = Idle
    /\ op' = [name |-> "error", pre |-> error, ret |-> error_property(error)]
    /\ UNCHANGED <<drvVars, discVars, wireVars, th, batch, ds, device_errors>>

(* reading the error_description property between two calls *)
ErrorDescriptionRead ==
    /\ op = Idle
    /\ \E r \in {error_description(device_errors, error)} :
         /\ device_errors' = r.de
         /\ op' = [name |-> "error_description", pre |-> error, ret |-> r.ret]
    /\ UNCHANGED <<drvVars, discVars, wireVars, th, batch, ds>>

(* the call is over: its observation is dropped, and the devices and       *)
(* channels are taken back to their idle state (what they store, and what  *)
(* is left unread, plays no part in the next call)                         *)
Return ==
    /\ op # Idle
    /\ op' = Idle
    /\ chan' = ClearLogs(chan)
    /\ dev' = [i \in 1..Len(dev) |-> NewDevice(dev[i].type, i)]
    /\ UNCHANGED <<drvVars, discVars, th, batch, ds, device_errors>>

InitCat ==
    /\ \E type \in {"RL2000", "LNA"} :
         /\ dev = [i \in 1..CatHandles |-> NewDevice(type, i)]
         /\ device_errors = NewErrors(type)
    /\ chan = [i \in 1..CatHandles |-> NewChan]
    /\ serial_ports \in [1..CatHandles -> [portstr : Endpoints \cup 1..CatHandles,
                                          is_open : BOOLEAN]]
    /\ \A i \in 1..CatHandles : serial_ports[i].portstr = i
    /\ checked_ports = {}
    /\ error = None
    /\ error_device_index = 0
    /\ _port_index = 0
    /\ connected = TRUE
    /\ debug \in BOOLEAN
    /\ cc_enum = <<>>
    /\ cc_checked0 = {}
    /\ cc_opened = <<>>
    /\ cc_written = <<>>
    /\ cc_result = "none"
    /\ temp_open = {}
    /\ cc_probes = <<>>
    /\ cc_dropped = {}
    /\ op = Idle
    /\ th = <<>>
    /\ batch = [state |-> "idle"]
    /\ ds = [phase |-> "idle"]

(* close() between two catalog calls: SerialDeviceDriver.py:297-316.  An    *)
(* exception of port.close() is caught and printed, so the call returns    *)
(* None; sp0 keeps the registry as it was when the call began.             *)
CloseCall ==
    /\ op = Idle
    /\ serial_ports' = close_all(serial_ports)
    /\ cc_result' = "closed"
    /\ op' = [name |-> "close", port |-> _port_index, arg |-> 0, ret |-> RNone,
              pre |-> Pre(_port_index), mode |-> "ok", kind |-> "ok",
              sp0 |-> serial_ports]
    /\ UNCHANGED <<checked_ports, error, error_device_index, _port_index,
                   connected, debug>>
    /\ UNCHANGED <<passVars, wireVars, th, batch, ds, device_errors>>

NextCat == CatalogCall \/ InvalidIndexCall \/ FloatPageCall \/ ClearErrorsCall
             \/ WritelnReadln \/ ErrorRead \/ ErrorDescriptionRead \/ Return
             \/ SelectPort \/ CloseCall

SpecCat == InitCat /\ [][NextCat]_vars

-----------------------------------------------------------------------------
(* Properties of the transport and of the catalog operations (SpecCat) *)

\* C5: after writeln followed by readln(read_error=True) the error field is
\* the integer on the second line when that line is a valid integer and None
\* when it is not (an empty line from a timeout included); after
\* readln(read_error=False) the error field is what it was before.
ErrorFieldFollowsSecondLine ==
    op.name = "writeln_readln" =>
        IF op.read_error
        THEN error = (IF op.kind = "ok" THEN op.el.val ELSE None)
        ELSE error = op.pre.error

(* the case of C5 that fails: a stored error code, then an error line that  *)
(* is not valid UTF-8                                                       *)
UndecodableErrorLineRead ==
    /\ op.name = "writeln_readln" /\ op.read_error /\ op.kind = "ok"
    /\ op.el.text = <<BadByte>>
    /\ op.ret.t = "raise"
    /\ op.pre.error # None /\ error = op.pre.error

(* a set-style call that argument validation refuses before any I/O *)
Refused == op.name = "set_point_count" /\ op.arg \notin valid_point_counts

ClosedHandleIsInert ==
    /\ (op.name \in CatalogOps /\ ~op.pre.is_open)
       => /\ op.ret.t \in {"None", "False"}
          /\ chan[op.port + 1].log = <<>>
          /\ chan[op.port + 1].tx = <<>>
          /\ chan[op.port + 1].rx = op.pre.rx
          /\ error = op.pre.error
          /\ error_device_index = op.pre.edi
          /\ _port_index = op.pre.pidx
    /\ op.name = "clear_errors"
       => /\ op.ret.t # "raise"
          /\ \A i \in 1..Len(chan) :
                ~serial_ports[i].is_open => chan[i].log = <<>> /\ chan[i].tx = <<>>
          /\ (\A i \in 1..Len(chan) : ~serial_ports[i].is_open)
                => /\ op.ret.t = "None"
                   /\ error = op.pre.error
                   /\ error_device_index = op.pre.edi
                   /\ _port_index = op.pre.pidx

ClosedHandleCalled ==
    /\ op.name = "set_eeprom_base_address" /\ ~op.pre.is_open
    /\ op.ret.t = "None"
    /\ op.pre.error = Some(4) /\ op.port # _port_index
    /\ \E i \in 1..Len(serial_ports) : serial_ports[i].is_open

\* C11: a catalog operation that takes a port_index and is given an index
\* past the end of a non-empty registry returns None or False and does not
\* raise, and it writes nothing and changes nothing.
InvalidIndexGivesSentinel ==
    op.name = "invalid_index"
    => /\ op.ret.t \in {"None", "False"}
       /\ \A i \in 1..Len(chan) : chan[i].tx = <<>> /\ chan[i].log = <<>>
       /\ error = op.pre.error
       /\ error_device_index = op.pre.edi
       /\ _port_index = op.pre.pidx

(* get_device_info called with the index that follows the last handle *)
DeviceInfoRaisedOnInvalidIndex ==
    /\ op.name = "invalid_index" /\ op.call = "get_device_info"
    /\ op.port = Len(serial_ports)
    /\ op.ret = Ret("raise", "IndexError")

\* C12: the run of a catalog operation with the debug flag inverted returns
\* the same value and puts the same lines on the wire of every handle.
DebugFlagChangesNothing ==
    op.name \in CatalogOps
    => /\ op.twin.ret = op.ret
       /\ op.twin.tx = Wire(chan)

(* set_power_off on a closed handle: None with debug off, False with debug *)
(* on                                                                      *)
ClosedHandleResultDependsOnDebug ==
    /\ op.name = "set_power_off" /\ ~op.pre.is_open
    /\ ~debug
    /\ op.ret.t = "None" /\ op.twin.ret.t = "False"

(* the text of a cell no page write has reached *)
ErasedText == FloatText(Erased)

\* C21: get_eeprom_float_page on an open handle writes exactly one line, the
\* get-page command, and makes one read with the paired error line; it
\* returns the 8 floats of the reply, or None when the reply does not split
\* into exactly 8 floats (wrong count, a field that is not a number, an empty
\* reply, no reply); it never writes a second command.
FloatPageOneCommandNoRetry ==
    op.name \in {"float_page", "get_eeprom_float_page"} =>
        LET c == chan[op.port + 1]
        IN  /\ Len(c.tx) <= 1
            /\ \A i \in 1..Len(chan) : i # op.port + 1 => chan[i].tx = <<>>
            /\ op.ret.t \in {"list", "None"}
            /\ op.ret.t = "list" =>
                  /\ Len(op.ret.v) = 8
                  /\ \A k \in 1..8 : op.ret.v[k] = Erased
            /\ (op.pre.is_open /\ op.mode = "ok") =>
                  /\ c.tx = <<LNAmplifier.cmdGetEEPROMFloatPage \o <<"\n">>>>
                  /\ c.log = <<"w", "r", "e">>
                  /\ op.ret.t = "list" <=> op.kind = "ok"

\* C23: set_point_count with a value other than 51, 101, 201 and 401 returns
\* False, writes and reads nothing on any handle, and leaves the device's
\* point count, the error field, the error index and the active index as
\* they were; with one of the four values on an open handle it writes the
\* command and the value, makes the read with the paired error line and
\* returns True.
PointCountRefusedBeforeAnyIO ==
    op.name = "set_point_count" =>
        LET c == chan[op.port + 1]
        IN  IF op.arg \notin {51, 101, 201, 401}
            THEN /\ op.ret.t = "False"
                 /\ \A i \in 1..Len(chan) : chan[i].tx = <<>> /\ chan[i].log = <<>>
                 /\ \A i \in 1..Len(dev) : dev[i].point_count = 0 /\ IsNone(dev[i].cmd)
                 /\ error = op.pre.error
                 /\ error_device_index = op.pre.edi
                 /\ _port_index = op.pre.pidx
            ELSE op.pre.is_open =>
                 /\ op.ret.t = "True"
                 /\ op.mode = "ok" =>
                       /\ c.tx = <<LNAmplifier.cmdSetPointCount \o <<"\n">>,
                                   IntText(op.arg) \o <<"\n">>>>
                       /\ c.log = <<"w", "w", "r", "e">>
                 /\ (op.mode = "ok" /\ op.kind = "ok") =>
                       dev[op.port + 1].point_count = op.arg

(* 50 is refused on an open handle that holds an error code *)
FiftyRefused ==
    /\ op.name = "set_point_count" /\ op.arg = 50 /\ op.pre.is_open
    /\ op.ret.t = "False"
    /\ op.pre.error = Some(4) /\ error = Some(4)
    /\ chan[op.port + 1].tx = <<>>

(* a reply of nine floats: None, after one command and one paired read *)
NineValuesGiveNone ==
    /\ op.name = "float_page" /\ op.kind = "long" /\ op.pre.is_open
    /\ op.ret.t = "None"
    /\ chan[op.port + 1].tx = <<LNAmplifier.cmdGetEEPROMFloatPage \o <<"\n">>>>
    /\ chan[op.port + 1].log = <<"w", "r", "e">>
    /\ chan[op.port + 1].rx = <<>>

-----------------------------------------------------------------------------
(* Fan-out calls of the RL2000 (RL2000Driver.py:143-152, 275-417, 478-546): *)
(* read_all_*, set_all_* and execute_all_system_check start one thread per *)
(* registry index, each running the per-handle operation, and gather their *)
(* results.  The threads share the driver object; a thread is interleaved  *)
(* with the others between its transport calls.                            *)

FanOps == {"read_temperatures", "read_currents", "read_voltages",
           "read_current_and_voltage"}
(* the per-handle operations of set_all_test_mode(True),                   *)
(* execute_all_system_check() and set_all_sample_rates(2)                  *)
FanSetOps == {"set_test_mode", "execute_system_check", "set_sample_rate"}
(* the per-handle operations of set_all_current_loads(value_array) and     *)
(* set_all_servo_voltages(voltage_array, channel_array), every entry of    *)
(* the arrays being 1.0 and channel 0                                      *)
FanArrayOps == {"set_current_load", "set_servo_voltage"}

Send(cmd) == [call |-> "send_command", cmd |-> cmd, read_error |-> FALSE]
Read(read_error) == [call |-> "read_value", cmd |-> <<>>, read_error |-> read_error]

(* the transport calls of a per-handle read after its port_ok test *)
Steps(fn) ==
    CASE fn = "read_temperatures" ->
           <<Send(RL2000.cmdGetCurrentLoadTemp), Read(TRUE), Send(RL2000.cmdGetCurrentMeterTemp), Read(TRUE)>>
      [] fn = "read_currents" ->
           <<Send(RL2000.cmdReadCurrentMeterAndLoad), Read(FALSE), Read(TRUE)>>
      [] fn = "read_voltages" ->
           <<Send(RL2000.cmdReadVoltmeters), Read(FALSE), Read(TRUE)>>
      [] fn = "read_current_and_voltage" ->
           <<Send(RL2000.cmdGetCurrentAndVoltage), Read(FALSE), Read(FALSE), Read(FALSE), Read(TRUE)>>
      [] fn = "set_test_mode" ->
           <<Send(SerialDevice.cmd_set_test_mode), Send(IntText(1)), Read(TRUE)>>
      [] fn = "execute_system_check" ->
           <<Send(RL2000.cmdExecuteSystemCheck), Read(TRUE)>>
      [] fn = "set_sample_rate" ->
           <<Send(RL2000.cmdSetSampleRate), Send(IntText(Clamp03(2))), Read(TRUE)>>
      [] fn = "set_current_load" ->
           <<Send(RL2000.cmdSetCurrentLoad), Send(FloatText(FracUnit)), Read(TRUE)>>
      [] fn = "set_servo_voltage" ->
           <<Send(RL2000.cmdServoCurrentMeter), Send(FloatText(FracUnit)),
             Send(IntText(0)), Read(TRUE)>>

(* RL2000Measurement with calculate_power (RL2000Driver.py:10-21); a power  *)
(* is a product of two fixed-point numbers                                  *)
RL2000Measurement(c1, v1, c2, v2) ==
    [Current |-> <<c1, c2>>, Voltage |-> <<v1, v2>>, Power |-> <<v1 * c1, v2 * c2>>]

(* what a per-handle read returns from the values it converted, in the     *)
(* order it read them                                                      *)
Reading_in_read_order(fn, vals) ==
    IF fn = "read_current_and_voltage"
    THEN RL2000Measurement(vals[1], vals[2], vals[3], vals[4])
    ELSE <<vals[1], vals[2]>>
Reading(fn, vals) ==
    CASE fn = "read_temperatures" -> <<vals[2], vals[1]>>
      [] fn = "read_currents" -> <<vals[1], vals[2]>>
      [] fn = "read_voltages" -> <<vals[1], vals[2]>>
      [] fn = "read_current_and_voltage" ->
           RL2000Measurement(vals[1], vals[2], vals[3], vals[4])

NewThread == [pc |-> 1, vals |-> <<>>, ret |-> Ret("running", 0)]

(* the next transport call of the thread running fn(port_index), with the  *)
(* float() of what it read; any exception ends the read with None.  A set  *)
(* operation ignores what its read returns and returns None.               *)
thread_step(w, fn, port_index, t) ==
    Bind(Steps(fn)[t.pc], LAMBDA s :
        IF t.pc = 1 /\ ~port_ok(w.sp, port_index)
        THEN [w |-> w, t |-> [t EXCEPT !.ret = RNone]]
        ELSE IF s.call = "send_command"
        THEN [w |-> send_command(w, s.cmd, port_index).w, t |-> [t EXCEPT !.pc = @ + 1]]
        ELSE Bind(read_value(w, s.read_error, port_index), LAMBDA r :
             IF fn \in FanSetOps \cup FanArrayOps
             THEN [w |-> r.w, t |-> [t EXCEPT !.ret = RNone]]
             ELSE IF IsNone(r.ret) THEN [w |-> r.w, t |-> [t EXCEPT !.ret = RNone]]
             ELSE Bind(Val(r.ret), LAMBDA text :
                 IF ~IsFloatText(text)
                 THEN [w |-> r.w, t |-> [t EXCEPT !.ret = RNone]]
                 ELSE Bind(Append(t.vals, ParseFloat(text)), LAMBDA vals :
                      [w |-> r.w,
                       t |-> IF t.pc = Len(Steps(fn))
                             THEN [t EXCEPT !.vals = vals, !.ret = Ret("value", Reading(fn, vals))]
                             ELSE [t EXCEPT !.vals = vals, !.pc = @ + 1]]))))

(* tasks = [to_thread(fn, port_index) for port_index in range(len(ports))] *)
tasks_on_first_handle(sp) == [k \in 1..Len(sp) |-> 0]
tasks(sp) == [k \in 1..Len(sp) |-> k - 1]

(* the await of asyncio.gather resumes when every task is done (no task   *)
(* raises: each per-handle operation catches Exception)                    *)
gather_ready_at_first_done(threads) ==
    \E i \in 1..Len(threads) : threads[i].ret.t # "running"
gather_ready(threads) == \A i \in 1..Len(threads) : threads[i].ret.t # "running"

(* asyncio.gather over the tasks: results in the order of the tasks; done  *)
(* is the order in which the threads finished                              *)
gather_as_completed(t, threads, done) == [k \in 1..Len(t) |-> threads[done[k]].ret]
gather(t, threads, done) == [k \in 1..Len(t) |-> threads[t[k] + 1].ret]


(* how an open handle may misbehave during a batch: a reply that is not a  *)
(* number, no reply before the timeout, or an I/O error on the channel     *)
FailKinds == {"garble", "mute", "fault"}

(* the error line of a device that reports a nonzero error code *)
ReportedErrorLine == <<"4">>

(* the threads of the batch fn are created; handle j (none when j = 0)     *)
(* misbehaves as f, and the device of handle e (none when e = 0) answers   *)
(* with a nonzero error code in its error line                             *)
fan_start(fn, j, f, e) ==
    /\ batch.state = "idle"
    /\ dev' = [i \in 1..Len(dev) |->
                 IF i = j /\ f # "fault" THEN [NewDevice("RL2000", i) EXCEPT !.kind = f]
                 ELSE IF i = e
                 THEN [NewDevice("RL2000", i) EXCEPT !.errline = ReportedErrorLine]
                 ELSE NewDevice("RL2000", i)]
    /\ chan' = [i \in 1..Len(chan) |->
                 IF i = j /\ f = "fault" THEN [NewChan EXCEPT !.mode = "fault"]
                 ELSE NewChan]
    /\ th' = [i \in 1..Len(serial_ports) |-> NewThread]
    /\ batch' = [state |-> "running", fn |-> fn, faulty |-> j, done |-> <<>>,
                 last_read |-> None, ret |-> RNone, reported |-> {}]
    /\ UNCHANGED <<drvVars, discVars, op, ds, device_errors>>

(* read_all_*, set_all_*, execute_all_system_check: the threads are created *)
FanStart ==
    \E fn \in FanOps \cup FanSetOps, j \in 0..Len(serial_ports), f \in FailKinds :
         /\ j = 0 => f = "garble"
         /\ j # 0 => serial_ports[j].is_open
         /\ fan_start(fn, j, f, 0)

(* a batch in which the device of one open handle reports an error code *)
FanStartWithDeviceError ==
    \E fn \in FanOps \cup FanSetOps, e \in 1..Len(serial_ports) :
         /\ serial_ports[e].is_open
         /\ fan_start(fn, 0, "garble", e)

(* tasks = [to_thread(fn, port_index, value_array[port_index])              *)
(*          for port_index in range(len(ports))]  (RL2000Driver.py:435-438, *)
(* 508-511): value_array[port_index] raises IndexError at the first port    *)
(* index the array of n entries does not reach, and the comprehension ends  *)
(* there; the coroutine objects made for the indexes before it are dropped  *)
(* without having been awaited, so none of them runs                        *)
array_tasks(sp, n) ==
    IF \E k \in 1..Len(sp) : k > n THEN Ret("raise", "IndexError")
    ELSE Ret("list", tasks(sp))

(* set_all_current_loads and set_all_servo_voltages called with arrays of  *)
(* n entries: RL2000Driver.py:432-441, 505-514.  The IndexError is caught  *)
(* and printed, and the call returns without a batch.                      *)
SetAllWithArrays ==
    \E fn \in FanArrayOps, n \in 0..FanHandles :
        \E t \in {array_tasks(serial_ports, n)} :
            IF t.t = "raise"
            THEN /\ batch.state = "idle"
                 /\ batch' = [state |-> "raised", fn |-> fn, given |-> n, ret |-> RNone]
                 /\ th' = <<>>
                 /\ chan' = [i \in 1..Len(chan) |-> NewChan]
                 /\ dev' = [i \in 1..Len(dev) |-> NewDevice("RL2000", i)]
                 /\ UNCHANGED <<drvVars, discVars, op, ds, device_errors>>
            ELSE /\ Len(t.v) = Len(serial_ports)
                 /\ fan_start(fn, 0, "garble", 0)

(* a batch with one handle whose device sends nothing *)
FanStartWithStall ==
    \E fn \in FanOps \cup FanSetOps, j \in 1..Len(serial_ports) :
         /\ serial_ports[j].is_open
         /\ fan_start(fn, j, "mute", 0)

(* asyncio.to_thread hands each task to the default executor, a pool of    *)
(* min(32, cpu_count + 4) worker threads, so of 5 at least: a task that    *)
(* has started keeps its worker until it is over, a task that has not      *)
(* started needs a free worker                                             *)
DefaultPoolWorkers == 5
Occupying(threads) ==
    {j \in 1..Len(threads) : threads[j].pc > 1 /\ threads[j].ret.t = "running"}
can_run_single_worker(threads, i) ==
    threads[i].pc > 1 \/ Cardinality(Occupying(threads)) < 1
can_run(threads, i) ==
    threads[i].pc > 1 \/ Cardinality(Occupying(threads)) < DefaultPoolWorkers

(* thread i makes its next transport call *)
ThreadStepOf(i) ==
    /\ batch.state = "running"
    /\ i \in 1..Len(th)
    /\ th[i].ret.t = "running"
    /\ can_run(th, i)
    /\ \E r \in {thread_step(World, batch.fn, tasks(serial_ports)[i], th[i])} :
         /\ Commit(r.w)
         /\ th' = [th EXCEPT ![i] = r.t]
         /\ batch' = [batch EXCEPT
                        !.done = IF r.t.ret.t = "running" THEN @ ELSE Append(@, i),
                        !.last_read =
                            IF port_ok(serial_ports, tasks(serial_ports)[i])
                               /\ Steps(batch.fn)[th[i].pc].call = "read_value"
                               /\ Steps(batch.fn)[th[i].pc].read_error
                            THEN Some(i - 1) ELSE None,
                        !.reported =
                            IF port_ok(serial_ports, tasks(serial_ports)[i])
                               /\ Steps(batch.fn)[th[i].pc].call = "read_value"
                               /\ Steps(batch.fn)[th[i].pc].read_error
                               /\ Truthy(r.w.e.error)
                            THEN @ \cup {i} ELSE @]
    /\ UNCHANGED <<checked_ports, connected, discVars, op, ds, device_errors>>

(* one thread makes its next transport call *)
ThreadStep == \E i \in 1..FanHandles : ThreadStepOf(i)

(* every thread has finished: gather hands the results to read_all_*;     *)
(* set_all_* and execute_all_system_check return nothing                   *)
Gather ==
    /\ batch.state = "running"
    /\ gather_ready(th)
    /\ batch' = [batch EXCEPT !.state = "done", !.last_read = None,
                              !.ret = IF batch.fn \in FanOps
                                      THEN Ret("list", gather(tasks(serial_ports), th, batch.done))
                                      ELSE RNone]
    /\ UNCHANGED <<drvVars, discVars, wireVars, op, th, ds, device_errors>>

(* the caller has the vector; devices and channels are idle again *)
FanReturn ==
    /\ batch.state \in {"done", "raised"}
    /\ batch' = [state |-> "idle"]
    /\ th' = <<>>
    /\ chan' = [i \in 1..Len(chan) |-> NewChan]
    /\ dev' = [i \in 1..Len(dev) |-> NewDevice("RL2000", i)]
    /\ UNCHANGED <<drvVars, discVars, op, ds, device_errors>>

InitFan ==
    /\ \E K \in 1..FanHandles :
         /\ dev = [i \in 1..K |-> NewDevice("RL2000", i)]
         /\ chan = [i \in 1..K |-> NewChan]
         /\ serial_ports \in [1..K -> [portstr : 1..FanHandles, is_open : BOOLEAN]]
         /\ \A i \in 1..K : serial_ports[i].portstr = i
    /\ checked_ports = {}
    /\ error = None
    /\ error_device_index = 0
    /\ _port_index = 0
    /\ connected = TRUE
    /\ debug \in BOOLEAN
    /\ cc_enum = <<>>
    /\ cc_checked0 = {}
    /\ cc_opened = <<>>
    /\ cc_written = <<>>
    /\ cc_result = "none"
    /\ temp_open = {}
    /\ cc_probes = <<>>
    /\ cc_dropped = {}
    /\ op = Idle
    /\ th = <<>>
    /\ batch = [state |-> "idle"]
    /\ ds = [phase |-> "idle"]
    /\ device_errors = NewErrors("RL2000")

NextFan == FanStart \/ FanStartWithDeviceError \/ SetAllWithArrays \/ ThreadStep
             \/ Gather \/ FanReturn

SpecFan == InitFan /\ [][NextFan]_vars

(* the handle whose device sends nothing in this batch: each of its reads  *)
(* returns when the timeout of the channel elapses                         *)
Stalled(i) == batch.state = "running" /\ batch.faulty = i /\ dev[i].kind = "mute"

(* Scheduling: a thread that can make its next call is scheduled, and the  *)
(* event loop resumes the caller when gather is ready.  Nothing is assumed *)
(* about when a read on the stalled handle returns.                        *)
InitFanFair == InitFan /\ ~debug /\ \A i \in 1..Len(serial_ports) : serial_ports[i].is_open

NextFanFair == FanStartWithStall \/ ThreadStep \/ Gather \/ FanReturn

SpecFanFair ==
    /\ InitFanFair /\ [][NextFanFair]_vars
    /\ \A i \in 1..FanHandles : WF_vars(~Stalled(i) /\ ThreadStepOf(i))
    /\ WF_vars(Gather)

-----------------------------------------------------------------------------
(* Properties of the fan-out reads (SpecFan) *)

(* handle i (1-based) cannot produce a reading in this batch *)
Fails(i) == ~serial_ports[i].is_open \/ batch.faulty = i

(* the reading of the device behind handle i, as fn reports it *)
Expected(fn, i) ==
    CASE fn = "read_temperatures" -> <<MeterTemp(dev[i]), LoadTemp(dev[i])>>
      [] fn = "read_currents" -> <<Current(dev[i], 1), Current(dev[i], 2)>>
      [] fn = "read_voltages" -> <<Voltage(dev[i], 1), Voltage(dev[i], 2)>>
      [] fn = "read_current_and_voltage" ->
           [Current |-> <<Current(dev[i], 1), Current(dev[i], 2)>>,
            Voltage |-> <<Voltage(dev[i], 1), Voltage(dev[i], 2)>>,
            Power   |-> <<Voltage(dev[i], 1) * Current(dev[i], 1),
                          Voltage(dev[i], 2) * Current(dev[i], 2)>>]

\* C2: a fan-out read over K handles never raises and returns a vector of
\* length K that holds None exactly at the handles whose read fails (closed
\* port, I/O fault, unparseable or missing reply) and the handle's own value
\* in every other slot.
FanOutFailureOnlyAtFailedHandle ==
    (batch.state = "done" /\ batch.fn \in FanOps) =>
        /\ batch.ret.t = "list"
        /\ Len(batch.ret.v) = Len(serial_ports)
        /\ \A i \in 1..Len(serial_ports) :
             IF Fails(i) THEN batch.ret.v[i].t = "None"
             ELSE /\ batch.ret.v[i].t = "value"
                  /\ batch.ret.v[i].v = Expected(batch.fn, i)

OneOfThreeFailed ==
    /\ batch.state = "done" /\ Len(serial_ports) = 3
    /\ batch.fn = "read_temperatures"
    /\ \A i \in 1..3 : serial_ports[i].is_open
    /\ batch.faulty = 3 /\ dev[3].kind = "mute"
    /\ batch.ret.v[1].t = "value" /\ batch.ret.v[2].t = "value"
    /\ batch.ret.v[3].t = "None"

\* C3: slot i of the vector a fan-out read returns is the result of the read
\* run on registry handle i, in whatever order the threads finish.
FanOutInRegistryOrder ==
    (batch.state = "done" /\ batch.fn \in FanOps) =>
        \A i \in 1..Len(serial_ports) :
            /\ batch.ret.v[i].t = th[i].ret.t
            /\ batch.ret.v[i].t = "value" =>
                  batch.ret.v[i].v = th[i].ret.v /\ th[i].ret.v = Expected(batch.fn, i)
            /\ batch.ret.v[i].t = "None" => Fails(i)

FinishedInReverseOrder ==
    /\ batch.state = "done" /\ batch.fn \in FanOps
    /\ batch.done = <<3, 2, 1>>
    /\ \A i \in 1..3 : batch.ret.v[i].t = "value"

\* C4: after a read with the error line on handle j (read_value(True, j)),
\* also from a fan-out thread, error_device_index is j.
ErrorIndexIsReadHandle ==
    (batch.state = "running" /\ batch.last_read # None)
        => error_device_index = Val(batch.last_read)

(* the scenario of three handles: the read on handle 2 has taken its error *)
(* line, and the index stored is that of the active handle                 *)
ErrorStoredForActiveHandle ==
    /\ batch.state = "running" /\ Len(serial_ports) = 3
    /\ batch.last_read = Some(2)
    /\ error = Some(0)
    /\ _port_index = 0 /\ error_device_index = 0

(* the calls a per-handle operation that runs to its end makes on its     *)
(* channel: "w" per line written, "r" per response line read, "e" per      *)
(* error line read                                                         *)
StepLog(s) == IF s.call = "send_command" THEN <<"w">>
              ELSE IF s.read_error THEN <<"r", "e">> ELSE <<"r">>
RECURSIVE LogOf(_)
LogOf(steps) == IF steps = <<>> THEN <<>> ELSE StepLog(Head(steps)) \o LogOf(Tail(steps))
ExchangeLog(fn) == LogOf(Steps(fn))
IsPrefix(a, b) == Len(a) <= Len(b) /\ SubSeq(b, 1, Len(a)) = a

\* C24: when a fan-out call returns, every per-handle operation of the batch
\* is over: none is running or unstarted, every handle that is open and
\* whose device answers has had its whole exchange, the handles after a
\* failed one included.
BatchReturnsAfterEveryOperation ==
    batch.state = "done" =>
        /\ Len(th) = Len(serial_ports)
        /\ \A i \in 1..Len(th) :
             /\ th[i].ret.t # "running"
             /\ ~Fails(i) => chan[i].log = ExchangeLog(batch.fn) /\ chan[i].rx = <<>>

(* set_all_test_mode over three handles: the first handle fails at once    *)
(* and is the first to finish, the two others have their whole exchange    *)
SetBatchDoneAfterFailure ==
    /\ batch.state = "done" /\ batch.fn = "set_test_mode"
    /\ Len(serial_ports) = 3
    /\ batch.faulty = 1 /\ chan[1].mode = "fault"
    /\ batch.done[1] = 1
    /\ chan[2].log = <<"w", "w", "r", "e">> /\ chan[3].log = <<"w", "w", "r", "e">>

(* the lines a per-handle operation that runs to its end writes *)
ExchangeTx(fn) ==
    LET sends == SelectSeq(Steps(fn), LAMBDA x : x.call = "send_command")
    IN  [k \in 1..Len(sends) |-> sends[k].cmd \o <<"\n">>]

\* C25: in a fan-out batch every registry handle is the port_index of exactly
\* one per-handle operation, and at every moment what has been written to
\* and read from a handle's channel is a prefix of that operation's calls in
\* program order, whatever the other threads have done in between.
OneOperationPerHandleInProgramOrder ==
    batch.state \in {"running", "done"} =>
        /\ Len(th) = Len(serial_ports)
        /\ \A h \in 0..(Len(serial_ports) - 1) :
             Cardinality({k \in 1..Len(th) : tasks(serial_ports)[k] = h}) = 1
        /\ \A i \in 1..Len(chan) :
             /\ IsPrefix(chan[i].log, ExchangeLog(batch.fn))
             /\ IsPrefix(chan[i].tx, ExchangeTx(batch.fn))

(* read_all_temperatures: handle 2 has had its first exchange while handle *)
(* 1 is between its first write and its first read, and handle 3 has not   *)
(* started                                                                 *)
HandlesInterleaved ==
    /\ batch.state = "running" /\ batch.fn = "read_temperatures"
    /\ Len(serial_ports) = 3
    /\ chan[1].log = <<"w">>
    /\ chan[2].log = <<"w", "r", "e", "w">>
    /\ chan[3].log = <<>>
    /\ \A i \in 1..3 : th[i].ret.t = "running"

\* C26: in a fan-out batch every per-handle operation other than the one of
\* a stalled handle comes to its end, with its whole exchange when its handle
\* is open and its device answers, whether or not the reads on the stalled
\* handle ever return; and once every per-handle operation is over the
\* batch returns.
SiblingsFinishAndBatchReturns ==
    /\ (batch.state = "running")
          ~> (/\ batch.state \in {"running", "done"}
              /\ \A i \in 1..Len(th) :
                    \/ Stalled(i)
                    \/ /\ th[i].ret.t # "running"
                       /\ ~Fails(i) => chan[i].log = ExchangeLog(batch.fn))
    /\ (batch.state = "running" /\ \A i \in 1..Len(th) : th[i].ret.t # "running")
          ~> (batch.state = "done")

(* the stalled handle 1 is still waiting for its first reply and the       *)
(* operations of handles 2 and 3 are over, with their readings             *)
SiblingsDoneWhileOneStalls ==
    /\ batch.state = "running" /\ batch.fn = "read_temperatures"
    /\ Len(serial_ports) = 3
    /\ Stalled(1) /\ chan[1].log = <<"w">> /\ th[1].ret.t = "running"
    /\ th[2].ret.t = "value" /\ th[3].ret.t = "value"

-----------------------------------------------------------------------------
(* Whole-dataset helpers of the LNAmplifier (LNAmplifierDriver.py:141-241,  *)
(* 478-581)                                                                 *)

MaxDataIndexAccepted == 8

(* the 8 values of page page_num: the samples, then 0.0 beyond the list *)
page_values_padded_with_one(float_values, page_num) ==
    [i \in 1..PageSize |->
        IF page_num * PageSize + (i - 1) < Len(float_values)
        THEN float_values[page_num * PageSize + i] ELSE FracUnit]
page_values(float_values, page_num) ==
    [i \in 1..PageSize |->
        IF page_num * PageSize + (i - 1) < Len(float_values)
        THEN float_values[page_num * PageSize + i] ELSE 0]

(* the page loop of set_eeprom_dataset; n counts successful_pages *)
RECURSIVE write_pages(_, _, _, _, _, _)
write_pages(w, float_values, port_index, page_num, page_count, n) ==
    IF page_num >= page_count THEN [w |-> w, n |-> n]
    ELSE Bind(page_values(float_values, page_num), LAMBDA page_data :
         Bind(set_eeprom_float_page(w, page_data, port_index), LAMBDA r :
             write_pages(r.w, float_values, port_index, page_num + 1, page_count,
                         IF r.ret.t = "True" THEN n + 1 ELSE n)))

(* the values of one page that belong to the dataset *)
page_part(page_data, page_num, point_count) ==
    SelectSeq([i \in 1..PageSize |-> [k |-> page_num * PageSize + (i - 1), x |-> page_data[i]]],
              LAMBDA c : c.k < point_count)

(* the page loop of get_eeprom_dataset; failed on the first page not read *)
RECURSIVE read_pages_skipping_failed(_, _, _, _, _, _)
read_pages_skipping_failed(w, port_index, page_num, page_count, point_count, dataset) ==
    IF page_num >= page_count THEN [w |-> w, dataset |-> dataset, failed |-> FALSE]
    ELSE Bind(get_eeprom_float_page(w, port_index), LAMBDA r :
             IF r.ret.t # "list"
             THEN read_pages_skipping_failed(r.w, port_index, page_num + 1, page_count,
                                             point_count, dataset)
             ELSE Bind(page_part(r.ret.v, page_num, point_count), LAMBDA part :
                  Bind(dataset \o [i \in 1..Len(part) |-> part[i].x], LAMBDA extended :
                      read_pages_skipping_failed(r.w, port_index, page_num + 1, page_count,
                                                 point_count, extended))))
RECURSIVE read_pages(_, _, _, _, _, _)
read_pages(w, port_index, page_num, page_count, point_count, dataset) ==
    IF page_num >= page_count THEN [w |-> w, dataset |-> dataset, failed |-> FALSE]
    ELSE Bind(get_eeprom_float_page(w, port_index), LAMBDA r :
             IF r.ret.t # "list" THEN [w |-> r.w, dataset |-> dataset, failed |-> TRUE]
             ELSE Bind(page_part(r.ret.v, page_num, point_count), LAMBDA part :
                  Bind(dataset \o [i \in 1..Len(part) |-> part[i].x], LAMBDA extended :
                      read_pages(r.w, port_index, page_num + 1, page_count, point_count,
                                 extended))))

(* steps 1 to 3 of both helpers: the point count, the base address, the    *)
(* page count, in the order of the code.  ok is FALSE when a step fails.   *)
dataset_prologue(w, data_index, port_index) ==
    LET no(x) == [w |-> x, ok |-> FALSE, point_count |-> 0, page_count |-> 0]
    IN  Bind(get_point_count(w, port_index), LAMBDA a :
            IF a.ret.t = "None" THEN no(a.w)
            ELSE IF ~IsIntText(a.ret.v) THEN no(a.w)
            ELSE Bind(set_eeprom_base_address(a.w, data_index, port_index), LAMBDA b :
                IF b.ret.t # "True" THEN no(b.w)
                ELSE Bind(get_eeprom_data_page_count(b.w, port_index), LAMBDA c :
                    IF c.ret.t = "None" THEN no(c.w)
                    ELSE IF ~IsIntText(c.ret.v) THEN no(c.w)
                    ELSE [w |-> c.w, ok |-> TRUE, point_count |-> ParseInt(a.ret.v),
                          page_count |-> ParseInt(c.ret.v)])))

set_eeprom_dataset(w, float_values, data_index, port_index) ==
    IF port_ok_raises(w.sp, port_index) THEN [w |-> w, ret |-> RBool(FALSE)]
    ELSE IF ~port_ok(w.sp, port_index) THEN [w |-> w, ret |-> RBool(FALSE)]
    ELSE IF Len(float_values) = 0 THEN [w |-> w, ret |-> RBool(FALSE)]
    ELSE IF data_index < 0 \/ data_index > MaxDataIndexAccepted
    THEN [w |-> w, ret |-> RBool(FALSE)]
    ELSE Bind(dataset_prologue(w, data_index, port_index), LAMBDA s :
             IF ~s.ok THEN [w |-> s.w, ret |-> RBool(FALSE)]
             ELSE Bind(write_pages(s.w, float_values, port_index, 0, s.page_count, 0), LAMBDA x :
                      [w |-> x.w, ret |-> RBool(x.n = s.page_count)]))

get_eeprom_dataset(w, data_index, port_index) ==
    IF port_ok_raises(w.sp, port_index) THEN [w |-> w, ret |-> RNone]
    ELSE IF ~port_ok(w.sp, port_index) THEN [w |-> w, ret |-> RNone]
    ELSE IF data_index < 0 \/ data_index > MaxDataIndexAccepted
    THEN [w |-> w, ret |-> RNone]
    ELSE Bind(dataset_prologue(w, data_index, port_index), LAMBDA s :
             IF ~s.ok THEN [w |-> s.w, ret |-> RNone]
             ELSE Bind(read_pages(s.w, port_index, 0, s.page_count, s.point_count, <<>>),
                       LAMBDA x :
                      IF x.failed THEN [w |-> x.w, ret |-> RNone]
                      ELSE IF Len(x.dataset) # s.point_count THEN [w |-> x.w, ret |-> RNone]
                      ELSE [w |-> x.w, ret |-> Ret("list", x.dataset)]))


(* Datasets written to and read from LNAmplifier devices (SpecData) *)

(* point counts with a full and with a partly filled last page *)
PointCounts == {(k - 1) * PageSize + 1 : k \in 1..MaxPages}
                 \cup {k * PageSize : k \in 1..(MaxPages - 1)}
DataIndexes == {0, MaxDataIndexAccepted}     \* the ends of the accepted range
Patterns == {"ramp", "zero"}
Sample(pat, k) ==
    CASE pat = "ramp" -> IF k % 2 = 0 THEN (k + 1) * FracUnit + 25 ELSE 0 - (k * 10 + 5)
      [] pat = "zero" -> 0
Dataset(pat, n) == [i \in 1..n |-> Sample(pat, i - 1)]

(* an LNAmplifier device that holds point_count points *)
LNADevice(id, n, mem) ==
    [NewDevice("LNA", id) EXCEPT !.point_count = n, !.pages = CeilDiv(n, PageSize),
                                 !.mem = mem]

(* the world a dataset call starts from: device i answering or not *)
PrepareData(w, i, kind) ==
    [w EXCEPT !.ch = [k \in 1..Len(w.ch) |-> NewChan],
              !.dv = [k \in 1..Len(w.dv) |->
                        [LNADevice(k, w.dv[k].point_count, w.dv[k].mem)
                           EXCEPT !.kind = IF k = i THEN kind ELSE "ok"]]]

SetDataset ==
    /\ ds.phase = "idle"
    /\ \E p \in 0..(Len(serial_ports) - 1), d \in DataIndexes, pat \in Patterns,
          kind \in {"ok", "mute"} :
         \E values \in {Dataset(pat, dev[p + 1].point_count)} :
           \E w \in {PrepareData(World, p + 1, kind)} :
             \E r \in {set_eeprom_dataset(w, values, d, p)} :
               /\ Commit(r.w)
               /\ ds' = [phase |-> "set", port |-> p, d |-> d, values |-> values,
                         ret |-> r.ret, kind |-> kind, was_open |-> serial_ports[p + 1].is_open]
    /\ UNCHANGED <<checked_ports, connected, discVars, op, th, batch, device_errors>>

GetDataset ==
    /\ ds.phase \in {"idle", "set"}
    /\ \E p \in 0..(Len(serial_ports) - 1), d \in DataIndexes, kind \in {"ok", "mute"} :
         /\ ds.phase = "set" => p = ds.port
         /\ \E w \in {PrepareData(World, p + 1, kind)} :
             \E r \in {get_eeprom_dataset(w, d, p)} :
               /\ Commit(r.w)
               /\ ds' = [phase |-> "get", port |-> p, d |-> d, ret |-> r.ret,
                         kind |-> kind, prev |-> ds,
                         was_open |-> serial_ports[p + 1].is_open]
    /\ UNCHANGED <<checked_ports, connected, discVars, op, th, batch, device_errors>>

(* get_eeprom_dataset from a device that reports a page count other than    *)
(* ceil(N/8), or whose second page is malformed                             *)
PageCountOffsets == {0 - 1, 0, 1}
GetDatasetOddDevice ==
    /\ ds.phase = "idle"
    /\ \E p \in 0..(Len(serial_ports) - 1), d \in DataIndexes, kind \in {"ok", "badpage2"},
          off \in PageCountOffsets :
         \E w0 \in {PrepareData(World, p + 1, kind)} :
           \E w \in {[w0 EXCEPT !.dv[p + 1].pages = @ + off]} :
             \E r \in {get_eeprom_dataset(w, d, p)} :
               /\ Commit(r.w)
               /\ ds' = [phase |-> "get_odd", port |-> p, d |-> d, ret |-> r.ret,
                         kind |-> kind, pages |-> w.dv[p + 1].pages,
                         was_open |-> serial_ports[p + 1].is_open]
    /\ UNCHANGED <<checked_ports, connected, discVars, op, th, batch, device_errors>>

(* set_eeprom_dataset with a list whose length is not the point count    *)
(* the device holds                                                        *)
SetDatasetOfOtherLength ==
    /\ ds.phase = "idle"
    /\ \E p \in 0..(Len(serial_ports) - 1), d \in DataIndexes, pat \in Patterns,
          n \in PointCounts :
         /\ n # dev[p + 1].point_count
         /\ \E values \in {Dataset(pat, n)} :
             \E w \in {PrepareData(World, p + 1, "ok")} :
               \E r \in {set_eeprom_dataset(w, values, d, p)} :
                 /\ Commit(r.w)
                 /\ ds' = [phase |-> "set_len", port |-> p, d |-> d, values |-> values,
                           ret |-> r.ret, kind |-> "ok",
                           was_open |-> serial_ports[p + 1].is_open]
    /\ UNCHANGED <<checked_ports, connected, discVars, op, th, batch, device_errors>>

(* the call is over; what the devices store stays *)
DataReturn ==
    /\ ds.phase \in {"set", "set_len", "get", "get_odd"}
    /\ ds' = [phase |-> "idle"]
    /\ chan' = [i \in 1..Len(chan) |-> NewChan]
    /\ dev' = [i \in 1..Len(dev) |-> LNADevice(i, dev[i].point_count, dev[i].mem)]
    /\ UNCHANGED <<drvVars, discVars, op, th, batch, device_errors>>

InitData ==
    /\ \E n \in PointCounts :
         dev = [i \in 1..DataHandles |-> LNADevice(i, n, <<>>)]
    /\ chan = [i \in 1..DataHandles |-> NewChan]
    /\ serial_ports \in [1..DataHandles -> [portstr : 1..DataHandles, is_open : BOOLEAN]]
    /\ \A i \in 1..DataHandles : serial_ports[i].portstr = i
    /\ serial_ports[1].is_open
    /\ checked_ports = {}
    /\ error = None
    /\ error_device_index = 0
    /\ _port_index = 0
    /\ connected = TRUE
    /\ debug = FALSE
    /\ cc_enum = <<>>
    /\ cc_checked0 = {}
    /\ cc_opened = <<>>
    /\ cc_written = <<>>
    /\ cc_result = "none"
    /\ temp_open = {}
    /\ cc_probes = <<>>
    /\ cc_dropped = {}
    /\ op = Idle
    /\ th = <<>>
    /\ batch = [state |-> "idle"]
    /\ ds = [phase |-> "idle"]
    /\ device_errors = NewErrors("LNA")

NextData == SetDataset \/ SetDatasetOfOtherLength \/ GetDataset
              \/ GetDatasetOddDevice \/ DataReturn

SpecData == InitData /\ [][NextData]_vars

-----------------------------------------------------------------------------
(* Properties of the dataset helpers (SpecData) *)

(* the lines written on the handle of the last dataset call *)
Sent == chan[ds.port + 1].tx
(* the positions in Sent of the command cmd *)
SentAt(cmd) == {k \in 1..Len(Sent) : Sent[k] = cmd \o <<"\n">>}
(* a dataset call on an open handle whose device answers *)
Served == ds.phase \in {"set", "get"} /\ ds.was_open /\ ds.kind = "ok"
PointCountOf(i) == dev[i + 1].point_count

\* C7: with a device of N points that reports ceil(N/8) pages,
\* set_eeprom_dataset on N values sends exactly ceil(N/8) page writes, page p
\* carrying the 8 values values[8p..8p+7] with 0.0 at every index >= N, and
\* get_eeprom_dataset sends exactly ceil(N/8) page reads and returns a list
\* of exactly N elements.
DatasetSpansCeilPages ==
    /\ (Served /\ ds.phase = "set" /\ Len(ds.values) = PointCountOf(ds.port))
        => LET N == Len(ds.values)
               P == SentAt(LNAmplifier.cmdSetEEPROMFloatPage)
           IN  /\ ds.ret.t = "True"
               /\ Cardinality(P) = CeilDiv(N, PageSize)
               /\ \A k \in P :
                    LET r == Cardinality({j \in P : j < k})
                        parts == Split(Strip(Sent[k + 1]), ",")
                    IN  /\ Len(parts) = PageSize
                        /\ \A i \in 1..PageSize :
                             /\ IsFloatText(parts[i])
                             /\ ParseFloat(parts[i]) =
                                  (IF r * PageSize + i <= N
                                   THEN ds.values[r * PageSize + i] ELSE 0)
    /\ (Served /\ ds.phase = "get")
        => /\ Cardinality(SentAt(LNAmplifier.cmdGetEEPROMFloatPage))
                = CeilDiv(PointCountOf(ds.port), PageSize)
           /\ ds.ret.t = "list"
           /\ Len(ds.ret.v) = PointCountOf(ds.port)

(* three pages, the last holding one sample and seven 0.0 *)
LastPagePadded ==
    /\ Served /\ ds.phase = "set" /\ ds.ret.t = "True"
    /\ Len(ds.values) = 2 * PageSize + 1
    /\ Cardinality(SentAt(LNAmplifier.cmdSetEEPROMFloatPage)) = 3
    /\ ds.values[1] # 0

(* a get directly after a set of the same dataset slot on the same handle *)
RoundTrip ==
    /\ Served /\ ds.phase = "get"
    /\ ds.prev.phase = "set" /\ ds.prev.was_open /\ ds.prev.kind = "ok"
    /\ ds.prev.port = ds.port /\ ds.prev.d = ds.d

\* C8: for a device that stores pages at an auto-incrementing pointer reset
\* by the base-address command, set_eeprom_dataset(values, d, h) followed by
\* get_eeprom_dataset(d, h) returns values element for element (exactly, so
\* within any tolerance), and the padding of the last page reads back 0.0.
DatasetRoundTrip ==
    RoundTrip
    => /\ ds.ret.t = "list"
       /\ ds.ret.v = ds.prev.values
       /\ LET N == Len(ds.prev.values)
              last == CeilDiv(N, PageSize) - 1
          IN  \A k \in 0..(PageSize - 1) :
                last * PageSize + k >= N
                  => LookupCell(dev[ds.port + 1].mem, ds.d, last, k) = 0

RoundTripDone ==
    /\ RoundTrip
    /\ Len(ds.prev.values) = PageSize + 1
    /\ ds.prev.values[1] = FracUnit + 25 /\ ds.prev.values[2] < 0
    /\ ds.ret.t = "list"

(* position of the first line of Sent carrying cmd, 0 when there is none *)
FirstSent(cmd) == IndexOf(Sent, cmd \o <<"\n">>)

\* C9: set_eeprom_dataset and get_eeprom_dataset send their commands in the
\* order point-count query, page-count query, base address, page operations:
\* the page-count query goes out before the base-address command.
PageCountQueriedBeforeBaseAddress ==
    Served
    => /\ FirstSent(LNAmplifier.cmdGetPointCount) = 1
       /\ FirstSent(LNAmplifier.cmdGetEEPROMDataPageCount) > FirstSent(LNAmplifier.cmdGetPointCount)
       /\ FirstSent(LNAmplifier.cmdSetEEPROMBaseAddress) > FirstSent(LNAmplifier.cmdGetEEPROMDataPageCount)
       /\ \A k \in SentAt(LNAmplifier.cmdSetEEPROMFloatPage) \cup SentAt(LNAmplifier.cmdGetEEPROMFloatPage) :
             k > FirstSent(LNAmplifier.cmdSetEEPROMBaseAddress)

(* what the helpers send: the base address second, the page-count query     *)
(* after it                                                                 *)
BaseAddressSentBeforePageCount ==
    /\ Served /\ ds.phase = "set"
    /\ FirstSent(LNAmplifier.cmdGetPointCount) = 1
    /\ FirstSent(LNAmplifier.cmdSetEEPROMBaseAddress) = 2
    /\ FirstSent(LNAmplifier.cmdGetEEPROMDataPageCount) = 4

(* the get-page commands the last dataset call sent *)
PageReads == Cardinality(SentAt(LNAmplifier.cmdGetEEPROMFloatPage))

\* C22: get_eeprom_dataset returns None or a list whose length is the point
\* count the device reports; when a page read fails it returns None and has
\* sent no further get-page command; when the page count the device reports
\* holds fewer than point-count values it returns None.
DatasetIsNoneOrPointCountLong ==
    ds.phase \in {"get", "get_odd"} =>
        /\ ds.ret.t \in {"None", "list"}
        /\ ds.ret.t = "list" => Len(ds.ret.v) = PointCountOf(ds.port)
        /\ (ds.phase = "get_odd" /\ ds.was_open) =>
              /\ (ds.kind = "badpage2" /\ ds.pages >= 2) =>
                    ds.ret.t = "None" /\ PageReads = 2
              /\ ds.pages * PageSize < PointCountOf(ds.port) => ds.ret.t = "None"
              /\ (ds.kind = "ok" \/ ds.pages < 2) => PageReads = ds.pages
              /\ (ds.kind = "ok" /\ ds.pages * PageSize >= PointCountOf(ds.port)) =>
                    ds.ret.t = "list"

(* three pages reported, the second malformed: None after two page reads *)
SecondPageFailedNoThirdRead ==
    /\ ds.phase = "get_odd" /\ ds.was_open /\ ds.kind = "badpage2"
    /\ ds.pages = 3 /\ PointCountOf(ds.port) = 2 * PageSize + 1
    /\ ds.ret.t = "None"
    /\ PageReads = 2


-----------------------------------------------------------------------------
(* The error register on its own (SpecErr): the operations of              *)
(* SerialDeviceErrors applied in any order to a freshly constructed object *)

(* bit numbers handed to the operations: below, at and beyond both ends of *)
(* the register, registered and unregistered ones                          *)
BitInputs == {0 - 1, 0, 4, 6, 15, 31, 32}

ErrCall(name, bit, ret) ==
    [name |-> name, bit |-> bit, ret |-> ret, pre |-> device_errors.error_flags]

ErrFrame ==
    UNCHANGED <<drvVars, discVars, wireVars, th, batch, ds>>

SetError ==
    /\ \E b \in BitInputs :
         /\ device_errors' = set_error(device_errors, b)
         /\ op' = ErrCall("set_error", b, <<>>)
    /\ ErrFrame

ClearError ==
    /\ \E b \in BitInputs :
         /\ device_errors' = clear_error(device_errors, b)
         /\ op' = ErrCall("clear_error", b, <<>>)
    /\ ErrFrame

ClearAllErrors ==
    /\ device_errors' = clear_all_errors(device_errors)
    /\ op' = ErrCall("clear_all_errors", 0, <<>>)
    /\ ErrFrame

GetErrorDescription ==
    /\ \E b \in BitInputs :
         op' = ErrCall("get_error_description", b,
                       <<get_error_description(device_errors, b)>>)
    /\ UNCHANGED device_errors
    /\ ErrFrame

GetErrorSummary ==
    /\ op' = ErrCall("get_error_summary", 0, get_error_summary(device_errors))
    /\ UNCHANGED device_errors
    /\ ErrFrame

InitErr ==
    /\ InitDriver
    /\ cc_enum = <<>>
    /\ cc_checked0 = {}
    /\ cc_opened = <<>>
    /\ cc_written = <<>>
    /\ cc_result = "none"
    /\ temp_open = {}
    /\ cc_probes = <<>>
    /\ cc_dropped = {}
    /\ chan = <<>>
    /\ dev = <<>>
    /\ op = Idle
    /\ th = <<>>
    /\ batch = [state |-> "idle"]
    /\ ds = [phase |-> "idle"]
    /\ \E type \in {"RL2000", "LNA"} : device_errors = NewErrors(type)

NextErr == SetError \/ ClearError \/ ClearAllErrors \/ GetErrorDescription
             \/ GetErrorSummary

SpecErr == InitErr /\ [][NextErr]_vars

(* the descriptions of the flagged bits b1 < b2 < ... of the register *)
RegisterBits == 0..31
FlaggedDescriptions ==
    LET asc == Ascending(device_errors.error_flags \cap RegisterBits)
    IN  [k \in 1..Len(asc) |->
            IF asc[k] \in DOMAIN device_errors.error_descriptions
            THEN device_errors.error_descriptions[asc[k]]
            ELSE "Unknown Error"]

(* d1, " | ", d2, " | ", ..., dn *)
Separated(ds_) ==
    [k \in 1..(IF Len(ds_) = 0 THEN 0 ELSE 2 * Len(ds_) - 1) |->
        IF k % 2 = 1 THEN ds_[(k + 1) \div 2] ELSE " | "]

(* C27: set_error(b) sets exactly bit b and clear_error(b) clears exactly   *)
(* bit b when 0 <= b < 32, and both leave the register as it was for any    *)
(* other b; clear_all_errors leaves no bit set; get_error_description(b)    *)
(* is the registered string, or "Unknown Error" for an unregistered bit;    *)
(* get_error_summary is the descriptions of exactly the set bits, in        *)
(* ascending bit order, joined by " | ", and empty when no bit is set.      *)
ErrorRegisterOperations ==
    /\ op.name = "set_error" =>
         \A k \in RegisterBits \cup BitInputs :
            k \in device_errors.error_flags
               <=> (k \in op.pre \/ (k = op.bit /\ op.bit \in RegisterBits))
    /\ op.name = "clear_error" =>
         \A k \in RegisterBits \cup BitInputs :
            k \in device_errors.error_flags
               <=> (k \in op.pre /\ ~(k = op.bit /\ op.bit \in RegisterBits))
    /\ op.name = "clear_all_errors" => device_errors.error_flags = {}
    /\ op.name = "get_error_description" =>
         /\ device_errors.error_flags = op.pre
         /\ op.ret = <<IF op.bit \in DOMAIN device_errors.error_descriptions
                       THEN device_errors.error_descriptions[op.bit]
                       ELSE "Unknown Error">>
    /\ op.name = "get_error_summary" =>
         /\ device_errors.error_flags = op.pre
         /\ op.ret = Separated(FlaggedDescriptions)
         /\ (op.pre = {} => op.ret = <<>>)

(* a summary of bit 0, a registered bit and an unregistered one was read *)
SummaryOfThreeBits ==
    /\ op.name = "get_error_summary"
    /\ {0, 31} \subseteq op.pre
    /\ \E b \in op.pre : b \in DOMAIN device_errors.error_descriptions /\ b # 0
    /\ Len(op.ret) = 2 * Cardinality(op.pre) - 1

-----------------------------------------------------------------------------
(* Properties of the error accessors (SpecCat) *)

(* C28: reading error and error_description returns a value and never      *)
(* raises, whatever the error state is: the None sentinel and a negative   *)
(* code included.                                                          *)
ErrorAccessorsNeverRaise ==
    op.name \in {"error", "error_description"} => op.ret.t # "raise"

(* error_description was read while the error was the None sentinel, and   *)
(* the read raised ValueError                                              *)
ErrorDescriptionRaisedOnNone ==
    /\ op.name = "error_description"
    /\ IsNone(op.pre)
    /\ op.ret = Ret("raise", "ValueError")

(* the same read after a device reported a negative code *)
ErrorDescriptionRaisedOnNegativeCode ==
    /\ op.name = "error_description"
    /\ ~IsNone(op.pre) /\ Val(op.pre) < 0
    /\ op.ret = Ret("raise", "ValueError")

(* a decimal code is read back as hexadecimal digits: code 12 is described *)
(* as bits 1 and 4                                                         *)
CodeTwelveDescribedAsBitsOneAndFour ==
    /\ op.name = "error_description"
    /\ op.pre = Some(12)
    /\ op.ret = Ret("str", <<"Command Not Found", " | ", "Parse Error">>)

-----------------------------------------------------------------------------
(* Properties of the get-style operations on a silent device (SpecCat) *)

DirectGetOps == {"execute_get_command", "get_error", "get_filter", "get_gain",
                 "get_point_count", "get_eeprom_address",
                 "get_eeprom_data_page_count"}

(* the last call was a get-style call on an open handle whose device sent  *)
(* nothing: the response line and the error line both timed out empty      *)
SilentGet ==
    /\ op.name \in DirectGetOps
    /\ op.kind = "mute" /\ op.mode = "ok"
    /\ op.pre.is_open

(* C29: when the device sends nothing and both line reads time out, a       *)
(* direct get-style call returns None, never an empty string or any other   *)
(* value.                                                                   *)
SilentGetReturnsNone == SilentGet => op.ret = RNone

(* get_point_count on a silent device returned the empty string *)
SilentGetReturnedEmptyString ==
    /\ SilentGet
    /\ op.name = "get_point_count"
    /\ op.ret = Ret("str", <<>>)

(* every get-style call on a silent device returns the empty string *)
SilentGetReturnsEmptyString == SilentGet => op.ret = Ret("str", <<>>)

(* each of the get-style operations was called on a silent device *)
SilentExecuteGetCommand == SilentGet /\ op.name = "execute_get_command"

-----------------------------------------------------------------------------
(* Properties of clear_errors (SpecCat) *)

(* the last call was clear_errors, every handle was open and answered, and *)
(* every paired error line carried the code 0                              *)
ClearedWithoutError ==
    /\ op.name = "clear_errors"
    /\ \A i \in 1..Len(serial_ports) : serial_ports[i].is_open
    /\ op.kind = "ok" /\ op.mode = "ok" /\ op.errline = <<"0">>

(* one handle reported the error code 4, the others 0 *)
ClearedWithErrorFour ==
    /\ op.name = "clear_errors"
    /\ \A i \in 1..Len(serial_ports) : serial_ports[i].is_open
    /\ op.kind = "ok" /\ op.mode = "ok" /\ op.errline = <<"4">>

(* every open handle received the clear-errors command, once *)
ClearErrorsSentToEveryHandle ==
    op.name = "clear_errors" =>
        \A i \in 1..Len(serial_ports) :
            (serial_ports[i].is_open /\ (i # op.port + 1 \/ op.mode = "ok"))
                => chan[i].tx = <<SerialDevice.cmd_clear_errors \o <<"\n">>>>

(* C30: clear_errors sends the clear-errors command to every registered     *)
(* handle and returns the device error code: 0 when the paired error line   *)
(* of every handle carries the code 0, and a nonzero code only when some    *)
(* handle reported one.                                                     *)
ClearErrorsReturnsErrorCode ==
    /\ ClearErrorsSentToEveryHandle
    /\ ClearedWithoutError => op.ret = Ret("int", 0)
    /\ (op.name = "clear_errors" /\ op.ret # Ret("int", 0)) =>
          /\ op.ret.t = "int"
          /\ op.kind = "ok" /\ op.errline = IntText(op.ret.v)

(* every error line was 0 and clear_errors returned a response text *)
ClearErrorsReturnedResponseText ==
    /\ ClearedWithoutError
    /\ op.ret.t = "str"

(* with at least one handle registered, clear_errors returns what the last *)
(* handle's read_value returned: a response text or None, never a code     *)
ClearErrorsReturnsLastReply ==
    op.name = "clear_errors" => op.ret.t \in {"str", "None"}

-----------------------------------------------------------------------------
(* Properties of get_device_info (SpecCat) *)

(* the last call was get_device_info on an open handle whose device sent   *)
(* its complete reply: seven field lines and the error line                *)
DeviceInfoAnswered ==
    /\ op.name = "get_device_info"
    /\ op.pre.is_open
    /\ op.kind = "ok" /\ op.mode = "ok"

(* C31: get_device_info on an open handle consumes the complete reply of    *)
(* the device, whatever error value earlier operations left: no reply line  *)
(* stays unread on the channel.                                             *)
DeviceInfoConsumesReply ==
    DeviceInfoAnswered => chan[op.port + 1].rx = <<>>

(* the call was made while the error left by an earlier operation was      *)
(* nonzero, read the first field only, and left the rest of the reply on   *)
(* the channel                                                             *)
DeviceInfoLeftReplyUnread ==
    /\ DeviceInfoAnswered
    /\ Truthy(op.pre.error)
    /\ chan[op.port + 1].rx # <<>>
    /\ op.ret.t = "info" /\ IsNone(op.ret.v.fields[7])

(* the reply is consumed when the error was None or 0 before the call, and *)
(* only the first line is consumed otherwise                               *)
DeviceInfoConsumesReplyIffNoEarlierError ==
    DeviceInfoAnswered =>
        (chan[op.port + 1].rx = <<>> <=> ~Truthy(op.pre.error))

(* a complete read: all seven fields and the error line *)
DeviceInfoReadCompletely ==
    /\ DeviceInfoAnswered
    /\ ~Truthy(op.pre.error)
    /\ chan[op.port + 1].rx = <<>>
    /\ op.ret.t = "info" /\ ~IsNone(op.ret.v.fields[7])

-----------------------------------------------------------------------------
(* Properties of the shared error field after a fan-out batch (SpecFan) *)

(* C32: when a fan-out batch is over and the paired error read of some      *)
(* handle stored a nonzero error code during the batch, the error property  *)
(* is nonzero, whatever the interleaving of the per-handle threads was.     *)
BatchErrorSeenAfterBatch ==
    (batch.state = "done" /\ batch.reported # {}) => error # Some(0)

(* the batch is over, handle 0 reported the code 4 and the last paired     *)
(* error read, made for another handle, stored 0                           *)
BatchErrorOverwrittenByLaterRead ==
    /\ batch.state = "done"
    /\ batch.reported = {1}
    /\ error = Some(0)
    /\ batch.done[Len(batch.done)] # 1

(* the same batch under another interleaving: the reporting handle's read  *)
(* was the last one, and the error code is still there                     *)
BatchErrorKeptWhenReadLast ==
    /\ batch.state = "done"
    /\ batch.reported = {1}
    /\ Len(th) > 1
    /\ error = Some(4)

-----------------------------------------------------------------------------
(* Properties of the fan-out sets that take per-handle arrays (SpecFan) *)

(* the call set_all_current_loads / set_all_servo_voltages is over *)
ArrayCallOver ==
    batch.state \in {"done", "raised"} /\ batch.fn \in FanArrayOps

(* the arrays of the call supply an entry for handle i: all of them do     *)
(* when the batch was formed                                               *)
Supplied(i) == batch.state = "done" \/ i <= batch.given

(* C33: set_all_current_loads and set_all_servo_voltages run the per-handle *)
(* operation exactly once on every registered handle for which the arrays   *)
(* supply an entry, also when the arrays are shorter than the registry:     *)
(* an open handle with an entry has received its set command.               *)
ArraySetReachesEverySuppliedHandle ==
    ArrayCallOver =>
        \A i \in 1..Len(serial_ports) :
            (Supplied(i) /\ serial_ports[i].is_open)
                => chan[i].tx = ExchangeTx(batch.fn)

(* one-element arrays with two open handles: the call is over and handle 0 *)
(* has received nothing                                                    *)
ShortArraysReachNoHandle ==
    /\ ArrayCallOver /\ batch.state = "raised"
    /\ batch.given = 1 /\ Len(serial_ports) = 2
    /\ \A i \in 1..2 : serial_ports[i].is_open
    /\ chan[1].tx = <<>> /\ chan[2].tx = <<>>

(* with arrays as long as the registry every open handle has its exchange *)
FullArraysReachEveryHandle ==
    /\ ArrayCallOver /\ batch.state = "done"
    /\ Len(serial_ports) = 2
    /\ \A i \in 1..2 : serial_ports[i].is_open /\ chan[i].tx = ExchangeTx(batch.fn)

(* a call with arrays shorter than the registry sends nothing at all *)
ShortArraysSendNothing ==
    batch.state = "raised" => \A i \in 1..Len(chan) : chan[i].tx = <<>>

-----------------------------------------------------------------------------
(* Properties of the EEPROM set operations under transport faults (SpecCat) *)

EepromSetOps == {"set_eeprom_float_page", "set_eeprom_base_address",
                 "set_point_count", "set_eeprom_float_value"}

(* the lines of the last call were written to its handle and its paired    *)
(* error read was made                                                     *)
ExchangeMade ==
    /\ chan[op.port + 1].tx # <<>>
    /\ \E k \in 1..Len(chan[op.port + 1].log) : chan[op.port + 1].log[k] = "e"

(* C34: set_eeprom_float_page, set_eeprom_base_address, set_point_count     *)
(* and set_eeprom_float_value return True only if the command and argument  *)
(* lines were written and the paired error read was made on the handle; if  *)
(* a write or a read faults inside send_command or read_value they return   *)
(* False.                                                                   *)
EepromSetTrueOnlyAfterExchange ==
    op.name \in EepromSetOps =>
        /\ op.ret = RBool(TRUE) => ExchangeMade
        /\ (op.pre.is_open /\ op.mode = "fault") => op.ret = RBool(FALSE)

(* set_eeprom_float_page on an open handle whose channel faults at every   *)
(* write and read: nothing was written, and the call returned True         *)
PageSetTrueAfterFault ==
    /\ op.name = "set_eeprom_float_page"
    /\ op.pre.is_open /\ op.mode = "fault"
    /\ chan[op.port + 1].tx = <<>> /\ chan[op.port + 1].log = <<>>
    /\ op.ret = RBool(TRUE)

(* without a fault, True does come after the whole exchange *)
EepromSetTrueAfterExchangeWithoutFault ==
    (op.name \in EepromSetOps /\ op.mode = "ok" /\ op.ret = RBool(TRUE))
        => ExchangeMade

-----------------------------------------------------------------------------
(* Properties of set_eeprom_dataset with a list of any length (SpecData) *)

(* the last call was set_eeprom_dataset *)
DatasetWritten == ds.phase \in {"set", "set_len"}

(* the payload lines of the pages the call wrote, in order *)
PagePayloads ==
    LET tx == chan[ds.port + 1].tx
        after == {k \in 2..Len(tx) : tx[k - 1] = LNAmplifier.cmdSetEEPROMFloatPage \o <<"\n">>}
        idx == Ascending(after)
    IN  [j \in 1..Len(idx) |-> tx[idx[j]]]

(* every element of float_values went to the device: page j of the list is *)
(* the j-th payload written                                                *)
EveryValueTransmitted ==
    /\ Len(PagePayloads) >= CeilDiv(Len(ds.values), PageSize)
    /\ \A j \in 1..CeilDiv(Len(ds.values), PageSize) :
          PagePayloads[j] = page_text(page_values(ds.values, j - 1)) \o <<"\n">>

(* C35: set_eeprom_dataset returns True only if every element of           *)
(* float_values was transmitted in some page; it does not return True      *)
(* after dropping the values beyond 8 times the page count the device      *)
(* reports, nor when the list length differs from the device point count.  *)
DatasetTrueOnlyIfAllTransmitted ==
    (DatasetWritten /\ ds.ret = RBool(TRUE)) =>
        /\ EveryValueTransmitted
        /\ Len(ds.values) = dev[ds.port + 1].point_count

(* a list of two pages written to a device that holds one page: one page   *)
(* was sent, the second was dropped, and the call returned True            *)
DatasetTrueAfterDroppingValues ==
    /\ ds.phase = "set_len" /\ ds.ret = RBool(TRUE)
    /\ Len(ds.values) > PageSize * dev[ds.port + 1].pages
    /\ Len(PagePayloads) = dev[ds.port + 1].pages
    /\ ~EveryValueTransmitted

(* when the list has the length of the device point count, True means that *)
(* every value was transmitted                                             *)
MatchingDatasetTrueMeansAllTransmitted ==
    (ds.phase = "set" /\ ds.ret = RBool(TRUE)) => EveryValueTransmitted

(* the number of pages written follows the device, not the list *)
PagesWrittenFollowDevice ==
    (DatasetWritten /\ ds.ret = RBool(TRUE))
        => Len(PagePayloads) = dev[ds.port + 1].pages

(***************************************************************************)
(* open_all_devices(print_status): LNAmplifierDriver.py:401-426 and        *)
(* RL2000Driver.py:234-259.  A discovery pass, then for every i below      *)
(* port_count: port_index = i, clear_errors(), print_device_info(i).       *)
(* A pass that returns False, or raises, ends in sys.exit(0).              *)
(***************************************************************************)
(* port_count: SerialDeviceDriver.py:181-184 *)
port_count(sp) == Cardinality({i \in 1..Len(sp) : sp[i].is_open})

(* the port_index assignments of iterations i .. n-1 of the loop *)
RECURSIVE select_each(_, _, _, _)
select_each(sp, pidx, i, n) ==
    IF i >= n THEN pidx
    ELSE select_each(sp, set_port_index(sp, pidx, i), i + 1, n)

(* the error line every device answers during the loop; "fault" stands for *)
(* reads that raise, which read_value swallows                             *)
LoopReplies == {<<"4">>, <<"fault">>}

(* the paired error reads of the loop, made while the active index is the  *)
(* last one the loop selected                                              *)
loop_errors(e, pidx, n, reply) ==
    IF n = 0 \/ reply = <<"fault">> THEN e ELSE readln_error(reply, e, pidx)

open_all_devices(ports, kinds, reply) ==
    \E s0 \in {[sp |-> serial_ports, cp |-> retain_available(checked_ports, ports),
                e |-> [error |-> error, edi |-> error_device_index],
                pidx |-> _port_index, opened |-> <<>>, written |-> <<>>,
                temp |-> {}, probes |-> <<>>, raised |-> FALSE]} :
      \E s \in {probe_all(s0, ports, kinds)} :
        /\ serial_ports' = s.sp
        /\ checked_ports' = s.cp
        /\ cc_enum' = ports
        /\ cc_checked0' = checked_ports
        /\ cc_opened' = s.opened
        /\ cc_written' = s.written
        /\ cc_probes' = s.probes
        /\ cc_dropped' = cc_dropped \cup (checked_ports \ Range(ports))
        /\ temp_open' \in SUBSET s.temp
        /\ IF s.raised
           THEN /\ cc_result' = "exit"
                /\ error' = s.e.error
                /\ error_device_index' = s.e.edi
                /\ UNCHANGED <<connected, _port_index>>
           ELSE IF Len(s.sp) = 0
           THEN /\ cc_result' = "exit"
                /\ connected' = FALSE
                /\ error' = s.e.error
                /\ error_device_index' = s.e.edi
                /\ UNCHANGED _port_index
           ELSE IF debug /\ IsNone(port(s.sp, 0))
           THEN /\ cc_result' = "exit"      \* line 264 raises; caught, then exit
                /\ connected' = TRUE
                /\ _port_index' = set_port_index(s.sp, _port_index, 0)
                /\ error' = s.e.error
                /\ error_device_index' = s.e.edi
           ELSE \E n \in {port_count(s.sp)} :
                \E p \in {select_each(s.sp, set_port_index(s.sp, _port_index, 0), 0, n)} :
                \E e \in {loop_errors(s.e, p, n, reply)} :
                  /\ cc_result' = "opened"
                  /\ connected' = TRUE
                  /\ _port_index' = p
                  /\ error' = e.error
                  /\ error_device_index' = e.edi
        /\ UNCHANGED <<debug, chan, dev, op, th, batch, ds, device_errors>>

OpenAllDevices ==
    \E ports \in Enumerations :
      \E kinds \in [ToProbe(ports) -> ProbeKinds] :
        \E reply \in LoopReplies :
          open_all_devices(ports, kinds, reply)

NextOpen == OpenAllDevices \/ Close \/ SelectPort

SpecOpen == InitDisc /\ [][NextOpen]_vars

(* C36: after open_all_devices succeeds with at least one registered       *)
(* handle, the active handle index is 0, whatever the number of handles.   *)
ActiveIndexZeroAfterOpenAll ==
    (cc_result = "opened" /\ Len(serial_ports) >= 1) => _port_index = 0

(* two handles opened: the loop leaves the last one active *)
LastHandleActiveAfterOpenAll ==
    /\ cc_result = "opened"
    /\ Len(serial_ports) = 2
    /\ port_count(serial_ports) = 2
    /\ _port_index = 1

(* what the loop leaves: the last open-count index, or 0 when none is open *)
ActiveIndexAfterOpenAll ==
    cc_result = "opened" =>
        _port_index = IF port_count(serial_ports) = 0 THEN 0
                      ELSE port_count(serial_ports) - 1

(* C37: whenever the registry is non-empty the active handle index lies in *)
(* 0 .. len(serial_ports) - 1; the setter rejects every other value and    *)
(* leaves the index as it was, so no sequence of discovery passes, closes, *)
(* selections and open_all_devices loops makes it dangle.                  *)
ActiveIndexInRange ==
    Len(serial_ports) # 0 =>
        (0 <= _port_index /\ _port_index < Len(serial_ports))

(* the second of two registered handles is active after both were closed *)
SecondHandleActiveAfterClose ==
    /\ Len(serial_ports) = 2
    /\ port_count(serial_ports) = 0
    /\ _port_index = 1
    /\ cc_result = "none"

(* the same range under the catalog operations and their port_index argument *)
ActiveIndexInRangeUnderCatalog == ActiveIndexInRange

(* C38: registry indices are stable.  No discovery pass, close or          *)
(* selection removes, replaces or reorders an entry: every entry keeps its *)
(* endpoint at its index, a closed handle is never exchanged for an open   *)
(* one, and the only growth is open handles appended at the end.           *)
RegistryStep ==
    /\ Len(serial_ports') >= Len(serial_ports)
    /\ \A i \in 1..Len(serial_ports) :
          /\ serial_ports'[i].portstr = serial_ports[i].portstr
          /\ serial_ports'[i].is_open => serial_ports[i].is_open
    /\ \A i \in (Len(serial_ports) + 1)..Len(serial_ports') :
          /\ serial_ports'[i].is_open
          /\ \A j \in 1..Len(serial_ports) :
                serial_ports[j].portstr # serial_ports'[i].portstr

RegistryIndicesStable == [][RegistryStep]_vars

(* a closed handle whose endpoint was probed again and matched: the pass   *)
(* left the old entry where it was                                         *)
ClosedHandleKeptWhenEndpointMatchesAgain ==
    /\ cc_result = "True"
    /\ Len(serial_ports) >= 2
    /\ \E i \in 1..Len(serial_ports) : \E k \in 1..Len(cc_probes) :
          /\ ~serial_ports[i].is_open
          /\ cc_probes[k].port = serial_ports[i].portstr
          /\ cc_probes[k].opened
          /\ ~cc_probes[k].registered
          /\ ~IsNone(cc_probes[k].resp)
          /\ ident_matches(Val(cc_probes[k].resp))

(* C39: after close() every registered handle is closed and port_count is  *)
(* 0 while the registry keeps its entries; close() returns normally and a  *)
(* second close() changes nothing; and as long as no handle has been       *)
(* opened since, every catalog operation returns None or False and puts    *)
(* nothing on any channel.                                                 *)
AllClosed == \A i \in 1..Len(serial_ports) : ~serial_ports[i].is_open

Silent == \A i \in 1..Len(chan) : chan[i].log = <<>> /\ chan[i].tx = <<>>

ClosedTwice ==
    /\ op.name = "close"
    /\ port_count(op.sp0) = 0
    /\ cc_result = "closed"

(* C40: for every nonzero error code stored by a paired error read,        *)
(* error_description returns a summary of registered descriptions that     *)
(* does not contain "No Error"; the empty summary is returned only for     *)
(* error code 0.                                                           *)
DescribedCode(n) == op.name = "error_description" /\ op.pre = Some(n)

NonzeroCodeNeverNoError ==
    \A n \in {Val(l.val) : l \in {m \in ErrorLines : ~IsNone(m.val)}} :
        (DescribedCode(n) /\ n # 0)
            => /\ op.ret.t = "str"
               /\ op.ret.v # <<>>
               /\ "No Error" \notin Range(op.ret.v)

(* error code 3 is read as the hexadecimal mask 0x3: bits 0 and 1 *)
CodeThreeDescribedAsNoError ==
    /\ DescribedCode(3)
    /\ op.ret = Ret("str", <<"No Error", " | ", "Command Not Found">>)

(* what does hold: the summary is empty only for error code 0, and "No     *)
(* Error" is reported exactly when the code, read as hexadecimal digits,   *)
(* is odd                                                                  *)
EmptySummaryOnlyForCodeZero ==
    (op.name = "error_description" /\ op.ret = Ret("str", <<>>))
        => op.pre = Some(0)

NoErrorReportedForOddHexCodes ==
    (op.name = "error_description" /\ op.ret.t = "str")
        => ("No Error" \in Range(op.ret.v)
               <=> 0 \in BitsOf(ParseHex(<<"0", "x">> \o ErrorText(op.pre))))

=============================================================================
